---- MODULE Spec2Model ----
(***************************************************************************)
(* A model of xfiles: a reply-threaded remote host used as a versioned,   *)
(* path-addressable file store.  These specifications share this module:   *)
(*   Spec       the filesystem layer (XFS, XFile) over the mock adapter,  *)
(*              the SQLite index and the content cache;                   *)
(*   SpecGraph  the in-memory CommitGraph algorithms;                     *)
(*   SpecWalk   the loops of those algorithms, one iteration per step;    *)
(*   SpecChunk  the chunker;                                              *)
(*   SpecRetry  retry_with_backoff, one step per invocation and per sleep; *)
(*   SpecLimiter  RateLimiter with concurrent callers and a clock;        *)
(*   SpecLimiterAny  the same, max_requests = 0 included;                 *)
(*   SpecTwitter  the RemoteAdapter calls of TwitterAdapter;              *)
(*   SpecOpenRace  open(Create) call by call, on instances that share the *)
(*              index and the remote host;                                *)
(*   SpecWriteRace  write and delete call by call, on handles that share  *)
(*              the index and the remote host;                            *)
(*   SpecModes  open, read, write and delete, with the mode every handle  *)
(*              was opened with kept on record;                           *)
(*   SpecList   the directory listing;                                    *)
(*   SpecStore  store_commit, set_head and get_commit of the index.       *)
(* Post identifiers "mock_tweet_<n>" are modelled by the number n.        *)
(***************************************************************************)
EXTENDS Integers, Sequences, FiniteSets, TLC

VARIABLES
    \* ---- filesystem layer (Spec) ----
    tweets,     \* MockAdapter.tweets: tweets[n] is the post "mock_tweet_n"
    commits,    \* SqliteStore table commits: id -> row
    files,      \* SqliteStore table files: path -> root id
    cache,      \* ContentCache of every XFS instance: fs -> (id -> bytes)
    handles,    \* the XFile values: slot -> [st, path, head, fs]
    now,        \* the wall clock: the last reading of Utc::now(), in ticks
    res,        \* what the last call returned
    oplog,      \* history variable: path -> the write/delete calls that succeeded
    faults,     \* history variable: the calls that returned an error because a
                \* remote or database call failed, as [op, path], in order
    \* ---- commit graph (SpecGraph) ----
    graph,      \* CommitGraph.commits: id -> commit
    gres,       \* what the last query on the graph returned
    walk,       \* the query whose loop is running (SpecWalk): [pc, op, start,
                \* queue, visited, pushed, ancestors]
    \* ---- chunker (SpecChunk) ----
    content,    \* the input of chunk_content
    chunks,     \* the output of chunk_content
    recombined, \* the output of recombine_chunks
    cstage,     \* "input", "chunked" or "recombined"
    \* ---- retry_with_backoff (SpecRetry) ----
    config,     \* RetryConfig: [max_attempts, initial_backoff, max_backoff, multiplier]
    attempt,    \* the local attempt
    backoff,    \* the local backoff, in milliseconds
    invocations,\* history variable: the outcome of every call of f, in order
    sleeps,     \* history variable: the duration of every sleep, in order
    rpc,        \* where the loop is: "call", "sleep" or "done" ("idle": not started)
    rret,       \* what retry_with_backoff returned
    \* ---- RateLimiter (SpecLimiter) ----
    max_requests,   \* RateLimiter.max_requests
    window,     \* RateLimiter.window, in ticks
    requests,   \* RateLimiter.requests: the Vec<Instant> behind the mutex
    lock,       \* the caller that holds the mutex, 0 when it is free
    instant,    \* what Instant::now() returns, in ticks
    callers,    \* the tasks that call the limiter: caller -> [pc, wake, alone]
    admitted,   \* history variable: every timestamp acquire recorded, in order
    cpres,      \* what the last can_proceed returned, when, and the ledger it left
    \* ---- TwitterAdapter (SpecTwitter) ----
    http,       \* history variable: the HTTP requests sent, as [call, method, outcome]
    tcalls,     \* history variable: the RemoteAdapter calls made, as [op, ok]
    \* ---- open(Create) call by call (SpecOpenRace) ----
    opens,      \* the open(Create) in progress on every instance: fs -> [pc, path, root_id]
    \* ---- write and delete call by call (SpecWriteRace) ----
    calls,      \* the write or delete in progress on every handle: slot ->
                \* [pc, op, data, chunks, chunk_ids]
    \* ---- open modes (SpecModes) ----
    opened      \* history variable: the mode every handle was opened with

fsVars == <<tweets, commits, files, cache, handles, now, res, oplog, faults>>
graphVars == <<graph, gres, walk>>
chunkVars == <<content, chunks, recombined, cstage>>
retryVars == <<config, attempt, backoff, invocations, sleeps, rpc, rret>>
limiterVars == <<max_requests, window, requests, lock, instant, callers, admitted, cpres>>
twitterVars == <<http, tcalls>>
remoteVars == <<retryVars, limiterVars, twitterVars>>
raceVars == <<opens, calls, opened>>
vars == <<fsVars, graphVars, chunkVars, remoteVars, raceVars>>

\* ------------------------------------------------------------------------
\* Helpers
\* ------------------------------------------------------------------------

Min(a, b) == IF a <= b THEN a ELSE b

\* Vec::contains
Contains(seq, x) == \E i \in 1..Len(seq) : seq[i] = x

\* The elements of a set in some order (the iteration order of a HashMap or
\* HashSet, which the program does not control).
RECURSIVE SetToSeq(_)
SetToSeq(S) ==
    IF S = {} THEN <<>>
    ELSE LET x == CHOOSE y \in S : TRUE IN <<x>> \o SetToSeq(S \ {x})

\* The empty map
EmptyMap == [x \in {} |-> 0]

\* HashMap::insert, INSERT ... ON CONFLICT DO UPDATE
Put(m, k, v) == [x \in (DOMAIN m) \cup {k} |-> IF x = k THEN v ELSE m[x]]

\* ------------------------------------------------------------------------
\* Chunker (fs/chunk.rs)
\* ------------------------------------------------------------------------

TWEET_MAX_SIZE == 280

\* the while loop of chunk_content
RECURSIVE ChunkLoop(_, _, _)
ChunkLoop(c, offset, acc) ==
    IF offset < Len(c)
    THEN LET end == Min(offset + TWEET_MAX_SIZE, Len(c))
         IN  ChunkLoop(c, end, Append(acc, SubSeq(c, offset + 1, end)))
    ELSE acc

\* chunk_content without its early return for short content
chunk_content_loop_only(c) == ChunkLoop(c, 0, <<>>)

\* chunk_content whose loop stops when less than a full segment is left
chunk_content_full_only(c) ==
    IF Len(c) <= TWEET_MAX_SIZE THEN <<c>>
    ELSE ChunkLoop(SubSeq(c, 1, (Len(c) \div TWEET_MAX_SIZE) * TWEET_MAX_SIZE), 0, <<>>)

chunk_content(c) ==
    IF Len(c) <= TWEET_MAX_SIZE THEN <<c>> ELSE ChunkLoop(c, 0, <<>>)

\* chunks.concat()
RECURSIVE recombine_chunks(_)
recombine_chunks(cs) ==
    IF cs = <<>> THEN <<>> ELSE Head(cs) \o recombine_chunks(Tail(cs))

\* A byte sequence of the given length; the bytes depend on the position and
\* on the seed, so that segments of one sequence differ from each other.
Bytes(len, seed) == [i \in 1..len |-> (7 * i + 13 * seed) % 256]

MaxContentLen == 562
MaxSeed == 1
ChunkInputs == {Bytes(len, seed) : len \in 0..MaxContentLen, seed \in 0..MaxSeed}

\* ------------------------------------------------------------------------
\* Commit graph (dag/graph.rs).  A graph is a map id -> commit; only the
\* fields parents and timestamp of a commit are read by the algorithms.
\* ------------------------------------------------------------------------

\* the while loop shared by find_head and detect_forks: a breadth-first walk
\* that expands a dequeued id only when it is loaded
RECURSIVE ReachLoop(_, _, _)
ReachLoop(g, queue, reachable) ==
    IF queue = <<>> THEN reachable
    ELSE LET current_id == Head(queue)
             found == IF current_id \in DOMAIN g
                      THEN {id \in DOMAIN g :
                               Contains(g[id].parents, current_id) /\ id \notin reachable}
                      ELSE {}
         IN  ReachLoop(g, Tail(queue) \o SetToSeq(found), reachable \cup found)

Reachable(g, start) == ReachLoop(g, <<start>>, {start})

has_children(g, id) == \E c \in DOMAIN g : Contains(g[c].parents, id)

\* The ids find_head may return; the empty set stands for Err(CommitNotFound).
\* max_by_key returns the last maximum in the iteration order of a HashSet, so
\* among heads of equal timestamp any one may be returned.
find_head_first_found(g, start) ==
    {id \in Reachable(g, start) : ~has_children(g, id) /\ id \in DOMAIN g}

find_head_no_lookup(g, start) ==
    IF start \notin DOMAIN g
    THEN {id \in {start} : ~has_children(g, id)}
    ELSE find_head_first_found(g, start)

find_head(g, start) ==
    LET heads == {id \in Reachable(g, start) : ~has_children(g, id) /\ id \in DOMAIN g}
    IN  {id \in heads : \A o \in heads : g[o].timestamp <= g[id].timestamp}

\* detect_forks: the Vec of head ids (no lookup of the id in the loaded set)
detect_forks(g, root) ==
    SetToSeq({id \in Reachable(g, root) : ~has_children(g, id)})

\* get_ancestors: backward walk over parents; the Vec of visited loaded ids
RECURSIVE AncestorLoop(_, _, _, _)
AncestorLoop(g, queue, visited, ancestors) ==
    IF queue = <<>> THEN ancestors
    ELSE LET current_id == Head(queue) IN
         IF current_id \in DOMAIN g
         THEN LET ps == g[current_id].parents
                  fresh == {i \in 1..Len(ps) :
                               ps[i] \notin visited /\ \A j \in 1..(i - 1) : ps[j] # ps[i]}
                  RECURSIVE Pick(_)
                  Pick(i) == IF i > Len(ps) THEN <<>>
                             ELSE (IF i \in fresh THEN <<ps[i]>> ELSE <<>>) \o Pick(i + 1)
              IN  AncestorLoop(g, Tail(queue) \o Pick(1),
                               visited \cup {ps[i] : i \in fresh},
                               Append(ancestors, current_id))
         ELSE AncestorLoop(g, Tail(queue), visited, ancestors)

\* get_ancestors that stops at the parents of the commit
get_ancestors_one_level(g, id) ==
    IF id \notin DOMAIN g THEN <<>>
    ELSE <<id>> \o SelectSeq(g[id].parents, LAMBDA p : p \in DOMAIN g /\ p # id)

get_ancestors(g, id) == AncestorLoop(g, <<id>>, {id}, <<>>)

\* ------------------------------------------------------------------------
\* Hashing (util/hash.rs).  blake3 is modelled as an injective function: the
\* digest of a byte sequence is the tagged sequence itself.
\* ------------------------------------------------------------------------

compute_hash(c) == <<"blake3", c>>

verify_hash(c, expected) == compute_hash(c) = expected

\* ------------------------------------------------------------------------
\* Commit (dag/commit.rs) and the persistent index (store/sqlite.rs)
\* ------------------------------------------------------------------------

\* The clock counts ticks; a row of the commits table keeps whole seconds.
TicksPerSecond == 2

\* Commit::new that lists the commit itself among its parents
Commit_new_own_parent(id, parents, author, hash, mime, size, clock) ==
    [id |-> id, parents |-> Append(parents, id), timestamp |-> clock, hash |-> hash,
     author |-> author, mime |-> mime, size |-> size, is_head |-> FALSE]

\* Commit::new stamps the commit with Utc::now() and leaves is_head false
Commit_new(id, parents, author, hash, mime, size, clock) ==
    [id |-> id, parents |-> parents, timestamp |-> clock, hash |-> hash,
     author |-> author, mime |-> mime, size |-> size, is_head |-> FALSE]

\* store_commit that binds an empty parents list
store_commit_no_parents(tbl, c) ==
    Put(tbl, c.id,
        [parents |-> <<>>, timestamp |-> c.timestamp \div TicksPerSecond,
         hash |-> c.hash, author |-> c.author, mime |-> c.mime, size |-> c.size,
         head |-> c.is_head])

\* store_commit that keeps one child per parent: the new row replaces the
\* rows that name the same parents
store_commit_replace_sibling(tbl, c) ==
    LET kept == {id \in DOMAIN tbl : tbl[id].parents = <<>> \/ tbl[id].parents # c.parents}
    IN  Put([id \in kept |-> tbl[id]], c.id,
            [parents |-> c.parents, timestamp |-> c.timestamp \div TicksPerSecond,
             hash |-> c.hash, author |-> c.author, mime |-> c.mime, size |-> c.size,
             head |-> c.is_head])

\* INSERT ... ON CONFLICT(tweet_id) DO UPDATE: the row of commit c, its
\* timestamp bound as commit.timestamp.timestamp() (whole seconds)
store_commit(tbl, c) ==
    Put(tbl, c.id,
        [parents |-> c.parents, timestamp |-> c.timestamp \div TicksPerSecond,
         hash |-> c.hash, author |-> c.author, mime |-> c.mime, size |-> c.size,
         head |-> c.is_head])

\* the Commit built from the row of id (the caller checks that the row exists)
get_commit(tbl, id) ==
    [id |-> id, parents |-> tbl[id].parents,
     timestamp |-> tbl[id].timestamp * TicksPerSecond,
     hash |-> tbl[id].hash, author |-> tbl[id].author, mime |-> tbl[id].mime,
     size |-> tbl[id].size, is_head |-> tbl[id].head]

\* SELECT ... WHERE parent_id LIKE '%"<id>"%': the rows whose serialized
\* parents list names parent_id
get_children(tbl, parent_id) ==
    {id \in DOMAIN tbl : Contains(tbl[id].parents, parent_id)}

\* set_head that also clears the head flag of every other row
set_head_exclusive(tbl, id) ==
    [x \in DOMAIN tbl |-> [tbl[x] EXCEPT !.head = (x = id)]]

\* UPDATE commits SET head = 1 WHERE tweet_id = id
set_head(tbl, id) ==
    [x \in DOMAIN tbl |-> IF x = id THEN [tbl[x] EXCEPT !.head = TRUE] ELSE tbl[x]]

\* register_file that writes nothing
register_file_nothing(f, path, root_tweet_id) == f

\* INSERT INTO files ... ON CONFLICT(path) DO UPDATE SET root_tweet_id
register_file(f, path, root_tweet_id) == Put(f, path, root_tweet_id)

\* SELECT root_tweet_id FROM files WHERE path = ?  (0 stands for None)
get_file_root(f, path) == IF path \in DOMAIN f THEN f[path] ELSE 0

file_exists(f, path) == Cardinality({p \in DOMAIN f : p = path}) > 0

\* ------------------------------------------------------------------------
\* Mock remote adapter (remote/mock.rs).  next_id is Len(tweets) + 1;
\* parent_id 0 stands for None.
\* ------------------------------------------------------------------------

generate_id(tw) == Len(tw) + 1

store(tw, c) == Append(tw, [content |-> c, parent_id |-> 0])

store_reply(tw, parent_id, c) == Append(tw, [content |-> c, parent_id |-> parent_id])

\* the caller checks that the post exists
fetch(tw, id) == tw[id].content

fetch_replies(tw, id) == {i \in 1..Len(tw) : tw[i].parent_id = id}

\* ------------------------------------------------------------------------
\* Content cache (store/cache.rs)
\* ------------------------------------------------------------------------

cache_hit(c, id) == id \in DOMAIN c

cache_get(c, id) == c[id]

\* put that stores nothing
cache_put_nothing(c, id, bytes) == c

cache_put(c, id, bytes) == Put(c, id, bytes)

\* ------------------------------------------------------------------------
\* Filesystem layer (lib.rs, fs/file.rs)
\* ------------------------------------------------------------------------

MaxPosts == 3       \* posts the remote host accepts in a run
MaxHandles == 2     \* XFile values created in a run
NumFS == 2          \* XFS instances over the same index and remote host
MaxTime == 2        \* the clock stops here
MaxStep == 1        \* ticks that pass between two readings of the clock
MaxFaults == 1      \* remote or database calls that fail in a run

Paths == {"logs/a.log", "top.txt"}
FSIds == 1..NumFS
HandleIds == 1..MaxHandles
Modes == {"Create", "ReadOnly", "ReadWrite"}
User == "testuser"
Tombstone == <<91, 68, 69, 76, 69, 84, 69, 68, 93>>  \* b"[DELETED]"
TombstoneMime == "application/x-xfiles-tombstone"

\* what write is called with: a content of one segment and one of two segments
Payloads == {Bytes(2, 0), Bytes(TWEET_MAX_SIZE + 1, 0)}

\* what the last call op returned: Ok(val) or Err(err)
NoRes == [op |-> "none", ok |-> TRUE, err |-> "", val |-> <<>>]
Ok(op, val) == [op |-> op, ok |-> TRUE, err |-> "", val |-> val]
Err(op, err) == [op |-> op, ok |-> FALSE, err |-> err, val |-> <<>>]

NoHandle == [st |-> "unused", path |-> "", head |-> 0, fs |-> 0]
DroppedHandle == [st |-> "dropped", path |-> "", head |-> 0, fs |-> 0]

\* Utc::now() in Commit::new: the clock is read, and it has not run backwards
\* since it was last read
ClockRead == \E dt \in 0..MaxStep : now + dt <= MaxTime /\ now' = now + dt

\* XFile::new
XFile_new(path, head, fs) == [st |-> "open", path |-> path, head |-> head, fs |-> fs]

\* the while loop of XFS::find_head: loads the persisted commits of the reply
\* tree; a reply with no persisted commit is skipped and its replies with it
RECURSIVE LoadLoop(_, _, _, _)
LoadLoop(tw, tbl, to_process, g) ==
    IF to_process = <<>> THEN g
    ELSE LET id == Head(to_process)
             rest == Tail(to_process)
         IN  IF id \in DOMAIN tbl
             THEN LET child_replies == fetch_replies(tw, id)
                      fresh == {r \in child_replies : ~Contains(rest, r)}
                  IN  LoadLoop(tw, tbl, rest \o SetToSeq(fresh),
                               Put(g, id, get_commit(tbl, id)))
             ELSE LoadLoop(tw, tbl, rest, g)

\* find_head that does not look past the root
XFS_find_head_root(tw, tbl, root_id) == {root_id}

\* find_head that takes the newest reply to the root as the head, whether or
\* not a commit is persisted for it
XFS_find_head_newest_reply(tw, tbl, root_id) ==
    LET replies == fetch_replies(tw, root_id) IN
    IF replies = {} THEN {root_id}
    ELSE {r \in replies : \A o \in replies : o <= r}

\* XFS::find_head: the ids it may return (the empty set: CommitNotFound)
XFS_find_head(tw, tbl, root_id) ==
    LET replies == fetch_replies(tw, root_id) IN
    IF replies = {} THEN {root_id}
    ELSE LET g0 == IF root_id \in DOMAIN tbl
                   THEN Put(EmptyMap, root_id, get_commit(tbl, root_id))
                   ELSE EmptyMap
         IN  find_head(LoadLoop(tw, tbl, SetToSeq(replies), g0), root_id)

\* history that returns the commits in the order it came upon them
SortByTimestamp_unsorted(s) == s

\* commits.sort_by_key(|c| c.timestamp): a stable sort
RECURSIVE SortByTimestamp(_)
SortByTimestamp(s) ==
    IF s = <<>> THEN <<>>
    ELSE LET sorted == SortByTimestamp(SubSeq(s, 1, Len(s) - 1))
             c == s[Len(s)]
             k == Cardinality({i \in 1..Len(sorted) : sorted[i].timestamp <= c.timestamp})
         IN  SubSeq(sorted, 1, k) \o <<c>> \o SubSeq(sorted, k + 1, Len(sorted))

\* the while loop of XFS::history: to_process is a stack
RECURSIVE HistoryLoop(_, _, _, _)
HistoryLoop(tbl, to_process, processed, out) ==
    IF to_process = <<>> THEN out
    ELSE LET id == to_process[Len(to_process)]
             rest == SubSeq(to_process, 1, Len(to_process) - 1)
         IN  IF id \in processed THEN HistoryLoop(tbl, rest, processed, out)
             ELSE IF id \in DOMAIN tbl
             THEN HistoryLoop(tbl, rest \o SetToSeq(get_children(tbl, id)),
                              processed \cup {id}, Append(out, get_commit(tbl, id)))
             ELSE HistoryLoop(tbl, rest, processed \cup {id}, out)

\* XFS::history on a registered path
history(tbl, f, path) ==
    SortByTimestamp(HistoryLoop(tbl, <<get_file_root(f, path)>>, {}, <<>>))

\* XFS::history: Err(FileNotFound) on a path that is not registered
XFS_history(tbl, f, path) ==
    IF get_file_root(f, path) = 0 THEN Err("history", "FileNotFound")
    ELSE Ok("history", history(tbl, f, path))

\* ---- XFS::open ---------------------------------------------------------

\* (None, OpenMode::Create): store the root post, store_commit, register_file,
\* set_head, XFile::new.  fail names the call that returns an error:
\* 1 adapter.store, 2 store_commit, 3 register_file, 4 set_head, 0 none.
OpenCreateNew(h, fs, path, fail) ==
    LET root_id == generate_id(tweets)
        commit == Commit_new(root_id, <<>>, User, compute_hash(<<>>), "text/plain", 0, now')
    IN  /\ fail \in 0..4
        /\ fail # 0 => Len(faults) < MaxFaults
        /\ faults' = IF fail = 0 THEN faults ELSE Append(faults, [op |-> "open", path |-> path])
        /\ IF fail = 1 THEN now' = now ELSE ClockRead
        /\ fail # 1 => Len(tweets) < MaxPosts
        /\ tweets' = IF fail = 1 THEN tweets ELSE store(tweets, <<>>)
        /\ commits' = IF fail \in {1, 2} THEN commits
                      ELSE IF fail = 0 THEN set_head(store_commit(commits, commit), root_id)
                      ELSE store_commit(commits, commit)
        /\ files' = IF fail \in {0, 4} THEN register_file(files, path, root_id) ELSE files
        /\ handles' = IF fail = 0 THEN [handles EXCEPT ![h] = XFile_new(path, root_id, fs)]
                      ELSE handles
        /\ res' = IF fail = 0 THEN Ok("open", <<>>)
                  ELSE IF fail = 1 THEN Err("open", "Remote")
                  ELSE Err("open", "Database")
        /\ UNCHANGED cache

\* open(Create) that does not look whether the path is registered
OpenAlreadyExists_creates(h, fs, path, fail) == OpenCreateNew(h, fs, path, fail)

\* (Some(root_id), OpenMode::Create): Err(Other("File already exists: ..."))
OpenAlreadyExists(h, fs, path, fail) ==
    /\ fail = 0
    /\ res' = Err("open", "Other: File already exists")
    /\ UNCHANGED <<tweets, commits, files, cache, handles, now, faults>>

\* (Some(root_id), ReadOnly | ReadWrite): find_head, XFile::new
OpenExisting(h, fs, path, mode, fail) ==
    LET found == XFS_find_head(tweets, commits, get_file_root(files, path))
    IN  /\ fail = 0
        /\ IF found = {}
           THEN /\ res' = Err("open", "CommitNotFound")
                /\ UNCHANGED handles
           ELSE \E head \in found :
                /\ handles' = [handles EXCEPT ![h] = XFile_new(path, head, fs)]
                /\ res' = Ok("open", <<>>)
        /\ UNCHANGED <<tweets, commits, files, cache, now, faults>>

\* open(ReadOnly | ReadWrite) that creates the file it does not find
OpenNotFound_creates(h, fs, path, mode, fail) == OpenCreateNew(h, fs, path, fail)

\* (None, ReadOnly | ReadWrite): Err(FileNotFound)
OpenNotFound(h, fs, path, mode, fail) ==
    /\ fail = 0
    /\ res' = Err("open", "FileNotFound")
    /\ UNCHANGED <<tweets, commits, files, cache, handles, now, faults>>

\* XFS::open on instance fs; the handle it returns is kept in slot h, the
\* first slot not used yet (a slot is used once, so it names one XFile value;
\* instances are interchangeable, and the first handle is opened on instance 1)
XFS_open(h, fs, path, mode, fail) ==
    /\ handles[h].st = "unused"
    /\ \A j \in 1..(h - 1) : handles[j].st # "unused"
    /\ h = 1 => fs = 1
    /\ LET root == get_file_root(files, path) IN
       \/ root # 0 /\ mode = "Create" /\ OpenAlreadyExists(h, fs, path, fail)
       \/ root = 0 /\ mode = "Create" /\ OpenCreateNew(h, fs, path, fail)
       \/ root # 0 /\ mode # "Create" /\ OpenExisting(h, fs, path, mode, fail)
       \/ root = 0 /\ mode # "Create" /\ OpenNotFound(h, fs, path, mode, fail)

Open(h, fs, path, mode, fail) ==
    /\ XFS_open(h, fs, path, mode, fail)
    /\ UNCHANGED <<oplog, graphVars, chunkVars, remoteVars, raceVars>>

\* ---- XFile::read --------------------------------------------------------

Read(h) ==
    LET f == handles[h] IN
    /\ f.st = "open"
    /\ IF cache_hit(cache[f.fs], f.head)
       THEN /\ res' = Ok("read", cache_get(cache[f.fs], f.head))
            /\ UNCHANGED cache
       ELSE IF f.head \in 1..Len(tweets)
       THEN /\ cache' = [cache EXCEPT ![f.fs] = cache_put(@, f.head, fetch(tweets, f.head))]
            /\ res' = Ok("read", fetch(tweets, f.head))
       ELSE /\ res' = Err("read", "TwitterApi: Tweet not found")
            /\ UNCHANGED cache
    /\ UNCHANGED <<tweets, commits, files, handles, now, oplog, faults, graphVars, chunkVars, remoteVars, raceVars>>

\* ---- XFile::write -------------------------------------------------------

\* the store_reply calls of a write that posts every segment as a reply to
\* the head
RECURSIVE PostChain_flat(_, _, _, _)
PostChain_flat(tw, parent_id, cs, n) ==
    IF n = 0 \/ cs = <<>> THEN tw
    ELSE PostChain_flat(store_reply(tw, parent_id, Head(cs)), parent_id, Tail(cs), n - 1)

\* the store_reply calls of write: the first n segments, the first one as a
\* reply to parent_id and each next one as a reply to the post before it
RECURSIVE PostChain(_, _, _, _)
PostChain(tw, parent_id, cs, n) ==
    IF n = 0 \/ cs = <<>> THEN tw
    ELSE PostChain(store_reply(tw, parent_id, Head(cs)), generate_id(tw), Tail(cs), n - 1)

\* write(data) on the handle in slot h.  With k segments, fail names the call
\* that returns an error: i in 1..k the store_reply of segment i, k+1
\* store_commit, k+2 set_head, 0 none.  Both branches of the code (one segment,
\* several segments) make these calls in this order.
Write(h, data, fail) ==
    LET f == handles[h]
        cs == chunk_content(data)
        k == Len(cs)
        posted == IF fail = 0 \/ fail > k THEN k ELSE fail - 1
        first_id == generate_id(tweets)
        commit == Commit_new(first_id, <<f.head>>, User, compute_hash(data),
                             "text/plain", Len(data), now')
    IN  /\ f.st = "open"
        /\ fail \in 0..(k + 2)
        /\ fail # 0 => Len(faults) < MaxFaults
        /\ IF fail \in 1..k THEN now' = now ELSE ClockRead
        /\ Len(tweets) + posted <= MaxPosts
        /\ tweets' = PostChain(tweets, f.head, cs, posted)
        /\ commits' = IF fail = 0 THEN set_head(store_commit(commits, commit), first_id)
                      ELSE IF fail = k + 2 THEN store_commit(commits, commit)
                      ELSE commits
        /\ handles' = IF fail = 0 THEN [handles EXCEPT ![h].head = first_id] ELSE handles
        /\ cache' = IF fail = 0 THEN [cache EXCEPT ![f.fs] = cache_put(@, first_id, data)]
                    ELSE cache
        /\ res' = IF fail = 0 THEN Ok("write", data)
                  ELSE IF fail <= k THEN Err("write", "Remote")
                  ELSE Err("write", "Database")
        /\ oplog' = IF fail = 0
                    THEN [oplog EXCEPT ![f.path] =
                             Append(@, [h |-> h, fs |-> f.fs, op |-> "write", old |-> f.head,
                                        new |-> first_id, data |-> data])]
                    ELSE oplog
        /\ faults' = IF fail = 0 THEN faults
                     ELSE Append(faults, [op |-> "write", path |-> f.path])
        /\ UNCHANGED <<files, graphVars, chunkVars, remoteVars, raceVars>>

\* ---- XFile::delete ------------------------------------------------------

\* delete that assigns the head as soon as the tombstone is posted, before
\* store_commit and set_head
Delete_head_first(h, fail) ==
    LET f == handles[h]
        id == generate_id(tweets)
        commit == Commit_new(id, <<f.head>>, User, compute_hash(Tombstone),
                             TombstoneMime, Len(Tombstone), now')
    IN  /\ f.st = "open"
        /\ fail \in 0..3
        /\ fail # 0 => Len(faults) < MaxFaults
        /\ IF fail = 1 THEN now' = now ELSE ClockRead
        /\ fail # 1 => Len(tweets) < MaxPosts
        /\ tweets' = IF fail = 1 THEN tweets ELSE store_reply(tweets, f.head, Tombstone)
        /\ commits' = IF fail = 0 THEN set_head(store_commit(commits, commit), id)
                      ELSE IF fail = 3 THEN store_commit(commits, commit)
                      ELSE commits
        /\ handles' = IF fail # 1 THEN [handles EXCEPT ![h].head = id] ELSE handles
        /\ res' = IF fail = 0 THEN Ok("delete", <<>>)
                  ELSE IF fail = 1 THEN Err("delete", "Remote")
                  ELSE Err("delete", "Database")
        /\ oplog' = IF fail = 0
                    THEN [oplog EXCEPT ![f.path] =
                             Append(@, [h |-> h, fs |-> f.fs, op |-> "delete", old |-> f.head,
                                        new |-> id, data |-> Tombstone])]
                    ELSE oplog
        /\ faults' = IF fail = 0 THEN faults
                     ELSE Append(faults, [op |-> "delete", path |-> f.path])
        /\ UNCHANGED <<files, cache, graphVars, chunkVars, remoteVars, raceVars>>

\* fail: 1 store_reply, 2 store_commit, 3 set_head, 0 none
Delete(h, fail) ==
    LET f == handles[h]
        id == generate_id(tweets)
        commit == Commit_new(id, <<f.head>>, User, compute_hash(Tombstone),
                             TombstoneMime, Len(Tombstone), now')
    IN  /\ f.st = "open"
        /\ fail \in 0..3
        /\ fail # 0 => Len(faults) < MaxFaults
        /\ IF fail = 1 THEN now' = now ELSE ClockRead
        /\ fail # 1 => Len(tweets) < MaxPosts
        /\ tweets' = IF fail = 1 THEN tweets ELSE store_reply(tweets, f.head, Tombstone)
        /\ commits' = IF fail = 0 THEN set_head(store_commit(commits, commit), id)
                      ELSE IF fail = 3 THEN store_commit(commits, commit)
                      ELSE commits
        /\ handles' = IF fail = 0 THEN [handles EXCEPT ![h].head = id] ELSE handles
        /\ res' = IF fail = 0 THEN Ok("delete", <<>>)
                  ELSE IF fail = 1 THEN Err("delete", "Remote")
                  ELSE Err("delete", "Database")
        /\ oplog' = IF fail = 0
                    THEN [oplog EXCEPT ![f.path] =
                             Append(@, [h |-> h, fs |-> f.fs, op |-> "delete", old |-> f.head,
                                        new |-> id, data |-> Tombstone])]
                    ELSE oplog
        /\ faults' = IF fail = 0 THEN faults
                     ELSE Append(faults, [op |-> "delete", path |-> f.path])
        /\ UNCHANGED <<files, cache, graphVars, chunkVars, remoteVars, raceVars>>

\* ---- drop(file) ---------------------------------------------------------

Drop(h) ==
    /\ handles[h].st = "open"
    /\ handles' = [handles EXCEPT ![h] = DroppedHandle]
    /\ UNCHANGED <<tweets, commits, files, cache, now, res, oplog, faults,
                   graphVars, chunkVars, remoteVars, raceVars>>

\* ---- the specification of the filesystem layer --------------------------

\* no query is running
NoWalk == [pc |-> "idle", op |-> "none", start |-> 0, queue |-> <<>>, visited |-> {},
           pushed |-> <<>>, ancestors |-> <<>>]
GraphIdle ==
    /\ graph = EmptyMap
    /\ gres = [op |-> "none", start |-> 0, ok |-> TRUE, ids |-> <<>>]
    /\ walk = NoWalk
ChunkIdle == content = <<>> /\ chunks = <<>> /\ recombined = <<>> /\ cstage = "idle"

\* no retry_with_backoff call was started
RetryIdle ==
    /\ config = [max_attempts |-> 0, initial_backoff |-> 0, max_backoff |-> 0, multiplier |-> 0]
    /\ attempt = 0 /\ backoff = 0
    /\ invocations = <<>> /\ sleeps = <<>>
    /\ rpc = "idle"
    /\ rret = [ok |-> TRUE, of |-> 0]

MaxCallers == 2     \* tasks that call one limiter
CallerIds == 1..MaxCallers
IdleCaller == [pc |-> "idle", wake |-> 0, alone |-> TRUE]

\* no limiter was made
LimiterIdle ==
    /\ max_requests = 0 /\ window = 0
    /\ requests = <<>> /\ lock = 0 /\ instant = 0
    /\ callers = [c \in CallerIds |-> IdleCaller]
    /\ admitted = <<>>
    /\ cpres = [op |-> "none", value |-> FALSE, at |-> 0, ledger |-> <<>>]

\* no call was made through a TwitterAdapter
TwitterIdle == http = <<>> /\ tcalls = <<>>

\* no open(Create) is in progress
NoOpen == [pc |-> "idle", path |-> "", root_id |-> 0]
\* no write or delete is in progress
NoCall == [pc |-> "idle", op |-> "", data |-> <<>>, chunks |-> <<>>, chunk_ids |-> <<>>]
RaceIdle ==
    /\ opens = [fs \in FSIds |-> NoOpen]
    /\ calls = [h \in HandleIds |-> NoCall]
    /\ opened = [h \in HandleIds |-> ""]

RemoteIdle == RetryIdle /\ LimiterIdle /\ TwitterIdle /\ RaceIdle

FsInit ==
    /\ tweets = <<>>
    /\ commits = EmptyMap
    /\ files = EmptyMap
    /\ cache = [fs \in FSIds |-> EmptyMap]
    /\ handles = [h \in HandleIds |-> NoHandle]
    /\ now = 0
    /\ res = NoRes
    /\ oplog = [p \in Paths |-> <<>>]
    /\ faults = <<>>

Init == FsInit /\ GraphIdle /\ ChunkIdle /\ RemoteIdle

MaxFail == 4    \* the largest number of fallible calls one operation makes

Next ==
    \/ \E h \in HandleIds, fs \in FSIds, path \in Paths, mode \in Modes, fail \in 0..MaxFail :
          Open(h, fs, path, mode, fail)
    \/ \E h \in HandleIds : Read(h)
    \/ \E h \in HandleIds, data \in Payloads, fail \in 0..MaxFail : Write(h, data, fail)
    \/ \E h \in HandleIds, fail \in 0..MaxFail : Delete(h, fail)
    \/ \E h \in HandleIds : Drop(h)

Spec == Init /\ [][Next]_vars

\* ------------------------------------------------------------------------
\* The specification of the commit graph: commits are added to a graph one
\* by one (add_commit), then one query is made on it.
\* ------------------------------------------------------------------------

MaxGraphIds == 3    \* ids a graph may hold
MaxParents == 2     \* parents a commit may name
MaxTimestamp == 2   \* timestamps run from 1 to this

GraphIds == 1..MaxGraphIds
GraphParents == {SetToSeq(S) : S \in {T \in SUBSET GraphIds : Cardinality(T) <= MaxParents}}

\* CommitGraph::add_commit
add_commit(g, commit) == Put(g, commit.id, commit)

AddCommit(id, parents, timestamp) ==
    /\ gres.op = "none"
    /\ graph' = add_commit(graph, [id |-> id, parents |-> parents, timestamp |-> timestamp])
    /\ UNCHANGED <<gres, walk, fsVars, chunkVars, remoteVars, raceVars>>

FindHead(start) ==
    /\ gres.op = "none"
    /\ IF find_head(graph, start) = {}
       THEN gres' = [op |-> "find_head", start |-> start, ok |-> FALSE, ids |-> <<>>]
       ELSE \E id \in find_head(graph, start) :
                gres' = [op |-> "find_head", start |-> start, ok |-> TRUE, ids |-> <<id>>]
    /\ UNCHANGED <<graph, walk, fsVars, chunkVars, remoteVars, raceVars>>

DetectForks(root) ==
    /\ gres.op = "none"
    /\ gres' = [op |-> "detect_forks", start |-> root, ok |-> TRUE,
                ids |-> detect_forks(graph, root)]
    /\ UNCHANGED <<graph, walk, fsVars, chunkVars, remoteVars, raceVars>>

GetAncestors(id) ==
    /\ gres.op = "none"
    /\ gres' = [op |-> "get_ancestors", start |-> id, ok |-> TRUE,
                ids |-> get_ancestors(graph, id)]
    /\ UNCHANGED <<graph, walk, fsVars, chunkVars, remoteVars, raceVars>>

GraphInit == FsInit /\ GraphIdle /\ ChunkIdle /\ RemoteIdle

GraphNext ==
    \/ \E id \in GraphIds, parents \in GraphParents, timestamp \in 1..MaxTimestamp :
          AddCommit(id, parents, timestamp)
    \/ \E start \in GraphIds : FindHead(start)
    \/ \E root \in GraphIds : DetectForks(root)
    \/ \E id \in GraphIds : GetAncestors(id)

SpecGraph == GraphInit /\ [][GraphNext]_vars

\* ------------------------------------------------------------------------
\* The specification of the loops of find_head, detect_forks and
\* get_ancestors: commits are added to a graph, then one query is made on it,
\* and every iteration of its while loop is a step.  The graph is borrowed
\* by the query, so that it does not change while the loop runs.
\* ------------------------------------------------------------------------

WalkOps == {"find_head", "detect_forks", "get_ancestors"}

WalkFrame == UNCHANGED <<graph, fsVars, chunkVars, remoteVars, raceVars>>

\* a membership test that lets every id through
unvisited_always(id, visited) == TRUE

\* !reachable.contains(id), !visited.contains(parent_id)
unvisited(id, visited) == id \notin visited

\* the for loop in the body of the while loop: every id that was not met
\* before is recorded and pushed to the back of the queue
RECURSIVE PushLoop(_, _)
PushLoop(ids, w) ==
    IF ids = <<>> THEN w
    ELSE LET id == Head(ids) IN
         PushLoop(Tail(ids),
                  IF unvisited(id, w.visited)
                  THEN [w EXCEPT !.visited = @ \cup {id}, !.queue = Append(@, id),
                                 !.pushed = Append(@, id)]
                  ELSE w)

\* queue.push_back(start); reachable.insert(start)
WalkBegin(op, start) ==
    /\ walk.pc = "idle"
    /\ gres.op = "none"
    /\ walk' = [pc |-> "loop", op |-> op, start |-> start, queue |-> <<start>>,
                visited |-> {start}, pushed |-> <<start>>, ancestors |-> <<>>]
    /\ UNCHANGED gres
    /\ WalkFrame

\* one iteration of while let Some(current_id) = queue.pop_front()
WalkStep ==
    /\ walk.pc = "loop"
    /\ walk.queue # <<>>
    /\ LET current_id == Head(walk.queue)
           popped == [walk EXCEPT !.queue = Tail(@)]
       IN  IF current_id \notin DOMAIN graph THEN walk' = popped
           ELSE IF walk.op = "get_ancestors"
           THEN walk' = PushLoop(graph[current_id].parents,
                                 [popped EXCEPT !.ancestors = Append(@, current_id)])
           ELSE walk' = PushLoop(SetToSeq({id \in DOMAIN graph :
                                              Contains(graph[id].parents, current_id)}),
                                 popped)
    /\ UNCHANGED gres
    /\ WalkFrame

\* the queue is empty: the heads are picked among the ids met (find_head,
\* detect_forks), and the query returns
WalkEnd ==
    /\ walk.pc = "loop"
    /\ walk.queue = <<>>
    /\ walk' = [walk EXCEPT !.pc = "done"]
    /\ LET childless == {id \in walk.visited : ~has_children(graph, id)}
           heads == childless \cap DOMAIN graph
           latest == {id \in heads : \A o \in heads : graph[o].timestamp <= graph[id].timestamp}
       IN  CASE walk.op = "find_head" ->
                  IF latest = {}
                  THEN gres' = [op |-> walk.op, start |-> walk.start, ok |-> FALSE, ids |-> <<>>]
                  ELSE \E id \in latest :
                          gres' = [op |-> walk.op, start |-> walk.start, ok |-> TRUE,
                                   ids |-> <<id>>]
              [] walk.op = "detect_forks" ->
                  gres' = [op |-> walk.op, start |-> walk.start, ok |-> TRUE,
                           ids |-> SetToSeq(childless)]
              [] walk.op = "get_ancestors" ->
                  gres' = [op |-> walk.op, start |-> walk.start, ok |-> TRUE,
                           ids |-> walk.ancestors]
    /\ WalkFrame

WalkNext ==
    \/ \E id \in GraphIds, parents \in GraphParents, timestamp \in 1..MaxTimestamp :
          walk.pc = "idle" /\ AddCommit(id, parents, timestamp)
    \/ \E op \in WalkOps, start \in GraphIds : WalkBegin(op, start)
    \/ WalkStep
    \/ WalkEnd

\* a loop that can make an iteration, or return, does so
SpecWalk == GraphInit /\ [][WalkNext]_vars /\ WF_vars(WalkStep \/ WalkEnd)

\* ------------------------------------------------------------------------
\* The specification of the chunker: a content is chunked, and the chunks
\* are recombined.
\* ------------------------------------------------------------------------

ChunkInit ==
    /\ FsInit /\ GraphIdle /\ RemoteIdle
    /\ content \in ChunkInputs
    /\ chunks = <<>>
    /\ recombined = <<>>
    /\ cstage = "input"

Chunk ==
    /\ cstage = "input"
    /\ chunks' = chunk_content(content)
    /\ cstage' = "chunked"
    /\ UNCHANGED <<content, recombined, fsVars, graphVars, remoteVars, raceVars>>

Recombine ==
    /\ cstage = "chunked"
    /\ recombined' = recombine_chunks(chunks)
    /\ cstage' = "recombined"
    /\ UNCHANGED <<content, chunks, fsVars, graphVars, remoteVars, raceVars>>

ChunkNext == Chunk \/ Recombine

SpecChunk == ChunkInit /\ [][ChunkNext]_vars

\* ------------------------------------------------------------------------
\* retry_with_backoff (remote/retry.rs): one call, for every RetryConfig of
\* the bounds and every operation f: each call of f returns Ok or Err, as f
\* chooses.  The value or error of the i-th call of f is named i.  Durations
\* are whole milliseconds and the multiplier is a whole number.
\* ------------------------------------------------------------------------

MaxAttempts == 3        \* max_attempts is in 0..MaxAttempts
MaxInitialBackoff == 2  \* initial_backoff is in 1..MaxInitialBackoff
MaxBackoffCap == 3      \* max_backoff is in 1..MaxBackoffCap
MaxMultiplier == 2      \* multiplier is in 1..MaxMultiplier

RetryConfigs ==
    [max_attempts : 0..MaxAttempts, initial_backoff : 1..MaxInitialBackoff,
     max_backoff : 1..MaxBackoffCap, multiplier : 1..MaxMultiplier]

\* let mut attempt = 0; let mut backoff = config.initial_backoff;
RetryInit ==
    /\ FsInit /\ GraphIdle /\ ChunkIdle /\ LimiterIdle /\ TwitterIdle /\ RaceIdle
    /\ config \in RetryConfigs
    /\ attempt = 0
    /\ backoff = config.initial_backoff
    /\ invocations = <<>> /\ sleeps = <<>>
    /\ rpc = "call"
    /\ rret = [ok |-> TRUE, of |-> 0]

\* the loop with the sleep placed before the match on the outcome of f
Invoke_then_sleep(outcome) ==
    /\ rpc = "call"
    /\ invocations' = Append(invocations, outcome)
    /\ sleeps' = Append(sleeps, backoff)
    /\ IF outcome = "ok"
       THEN /\ rret' = [ok |-> TRUE, of |-> Len(invocations')]
            /\ rpc' = "done"
            /\ UNCHANGED attempt
       ELSE /\ attempt' = attempt + 1
            /\ IF attempt' >= config.max_attempts
               THEN rret' = [ok |-> FALSE, of |-> Len(invocations')] /\ rpc' = "done"
               ELSE rpc' = "call" /\ UNCHANGED rret
    /\ UNCHANGED <<config, backoff, fsVars, graphVars, chunkVars, limiterVars, twitterVars, raceVars>>

\* match f().await: Ok(result) => return Ok(result); Err(e) => attempt += 1,
\* return Err(e) if attempt >= config.max_attempts, else go on to the sleep
Invoke(outcome) ==
    /\ rpc = "call"
    /\ invocations' = Append(invocations, outcome)
    /\ IF outcome = "ok"
       THEN /\ rret' = [ok |-> TRUE, of |-> Len(invocations')]
            /\ rpc' = "done"
            /\ UNCHANGED attempt
       ELSE /\ attempt' = attempt + 1
            /\ IF attempt' >= config.max_attempts
               THEN rret' = [ok |-> FALSE, of |-> Len(invocations')] /\ rpc' = "done"
               ELSE rpc' = "sleep" /\ UNCHANGED rret
    /\ UNCHANGED <<config, backoff, sleeps, fsVars, graphVars, chunkVars, limiterVars, twitterVars, raceVars>>

\* sleep(backoff).await; backoff = min(backoff * multiplier, max_backoff)
Sleep ==
    /\ rpc = "sleep"
    /\ sleeps' = Append(sleeps, backoff)
    /\ backoff' = Min(backoff * config.multiplier, config.max_backoff)
    /\ rpc' = "call"
    /\ UNCHANGED <<config, attempt, invocations, rret, fsVars, graphVars, chunkVars,
                   limiterVars, twitterVars, raceVars>>

RetryNext ==
    \/ \E outcome \in {"ok", "err"} : Invoke(outcome)
    \/ Sleep

SpecRetry == RetryInit /\ [][RetryNext]_vars

\* ------------------------------------------------------------------------
\* RateLimiter (remote/rate_limit.rs).  Tasks call acquire and can_proceed on
\* one limiter; time passes between any two steps (Tick).  Every step reads
\* Instant::now() at most once, so the readings acquire makes one after the
\* other (for the cutoff, for wait_time, after the sleep, for the push) may
\* differ.  A caller record is [pc, wake, alone]: pc is where the task is in
\* acquire ("idle": not in acquire), wake is when its sleep ends, alone says
\* that no other task was in acquire since this call began.
\* ------------------------------------------------------------------------

MaxRequests == 2    \* max_requests is in 1..MaxRequests (0..MaxRequests in SpecLimiterAny)
MaxWindow == 2      \* window is in 1..MaxWindow ticks
MaxClock == 4       \* Instant::now() stops at MaxClock
MaxAdmitted == 3    \* acquire calls that are begun

\* requests.retain(|&ts| ts > cutoff)
retain(reqs, cutoff) == SelectSeq(reqs, LAMBDA ts : ts > cutoff)

LimiterInit ==
    /\ FsInit /\ GraphIdle /\ ChunkIdle /\ RetryIdle /\ TwitterIdle /\ RaceIdle
    /\ max_requests \in 1..MaxRequests
    /\ window \in 1..MaxWindow
    /\ requests = <<>> /\ lock = 0 /\ instant = 0
    /\ callers = [c \in CallerIds |-> IdleCaller]
    /\ admitted = <<>>
    /\ cpres = [op |-> "none", value |-> FALSE, at |-> 0, ledger |-> <<>>]

LimiterFrame ==
    UNCHANGED <<max_requests, window, fsVars, graphVars, chunkVars, retryVars, twitterVars,
                raceVars>>

\* the tasks that are inside acquire
InAcquire == {c \in CallerIds : callers[c].pc \notin {"idle", "panicked"}}

\* time passes
Tick ==
    /\ instant < MaxClock
    /\ instant' = instant + 1
    /\ UNCHANGED <<requests, lock, callers, admitted, cpres>>
    /\ LimiterFrame

\* acquire, up to the test of the limit: lock the mutex, compute the cutoff,
\* drop the expired timestamps
AcquireBegin(c) ==
    /\ callers[c].pc = "idle"
    /\ lock = 0
    /\ Len(admitted) + Cardinality(InAcquire) < MaxAdmitted
    /\ lock' = c
    /\ requests' = retain(requests, instant - window)
    /\ callers' = [d \in CallerIds |->
                     IF d = c THEN [pc |-> "check", wake |-> 0, alone |-> InAcquire = {}]
                     ELSE IF d \in InAcquire THEN [callers[d] EXCEPT !.alone = FALSE]
                     ELSE callers[d]]
    /\ UNCHANGED <<instant, admitted, cpres>>
    /\ LimiterFrame

\* if requests.len() >= max_requests: wait_time = window - (now - oldest);
\* the subtraction of Durations panics when now - oldest > window; with a
\* wait_time of zero, and below the limit, acquire goes on to the push;
\* otherwise it releases the mutex and sleeps for wait_time
AcquireCheck(c) ==
    /\ callers[c].pc = "check"
    /\ IF Len(requests) >= max_requests /\ requests # <<>>
       THEN LET oldest == Head(requests)
                elapsed == instant - oldest
            IN  IF elapsed > window
                THEN /\ callers' = [callers EXCEPT ![c].pc = "panicked"]
                     /\ lock' = 0
                ELSE IF window - elapsed = 0
                THEN /\ callers' = [callers EXCEPT ![c].pc = "push"]
                     /\ UNCHANGED lock
                ELSE /\ callers' = [callers EXCEPT ![c].pc = "sleep",
                                                   ![c].wake = instant + (window - elapsed)]
                     /\ lock' = 0
       ELSE /\ callers' = [callers EXCEPT ![c].pc = "push"]
            /\ UNCHANGED lock
    /\ UNCHANGED <<requests, instant, admitted, cpres>>
    /\ LimiterFrame

\* the sleep is over: lock the mutex again and drop the expired timestamps
AcquireWake(c) ==
    /\ callers[c].pc = "sleep"
    /\ instant >= callers[c].wake
    /\ lock = 0
    /\ lock' = c
    /\ requests' = retain(requests, instant - window)
    /\ callers' = [callers EXCEPT ![c].pc = "push"]
    /\ UNCHANGED <<instant, admitted, cpres>>
    /\ LimiterFrame

\* requests.push(Instant::now()); the mutex is released on return
AcquirePush(c) ==
    /\ callers[c].pc = "push"
    /\ requests' = Append(requests, instant)
    /\ admitted' = Append(admitted, instant)
    /\ lock' = 0
    /\ callers' = [callers EXCEPT ![c].pc = "idle"]
    /\ UNCHANGED <<instant, cpres>>
    /\ LimiterFrame

\* can_proceed that takes the slot it finds free
CanProceed_records(c) ==
    /\ callers[c].pc = "idle"
    /\ lock = 0
    /\ cpres' = [op |-> "can_proceed",
                 value |-> Len(retain(requests, instant - window)) < max_requests,
                 at |-> instant, ledger |-> retain(requests, instant - window)]
    /\ requests' = IF cpres'.value THEN Append(retain(requests, instant - window), instant)
                   ELSE retain(requests, instant - window)
    /\ admitted' = IF cpres'.value THEN Append(admitted, instant) ELSE admitted
    /\ UNCHANGED <<lock, instant, callers>>
    /\ LimiterFrame

\* can_proceed: lock, drop the expired timestamps, requests.len() < max_requests
CanProceed(c) ==
    /\ callers[c].pc = "idle"
    /\ lock = 0
    /\ requests' = retain(requests, instant - window)
    /\ cpres' = [op |-> "can_proceed", value |-> Len(requests') < max_requests,
                 at |-> instant, ledger |-> requests']
    /\ UNCHANGED <<lock, instant, callers, admitted>>
    /\ LimiterFrame

LimiterNext ==
    \/ Tick
    \/ \E c \in CallerIds : AcquireBegin(c)
    \/ \E c \in CallerIds : AcquireCheck(c)
    \/ \E c \in CallerIds : AcquireWake(c)
    \/ \E c \in CallerIds : AcquirePush(c)
    \/ \E c \in CallerIds : CanProceed(c)

SpecLimiter == LimiterInit /\ [][LimiterNext]_vars

\* RateLimiter::new takes any usize for max_requests: the limiter of every
\* configuration, max_requests = 0 included
LimiterAnyInit ==
    /\ FsInit /\ GraphIdle /\ ChunkIdle /\ RetryIdle /\ TwitterIdle /\ RaceIdle
    /\ max_requests \in 0..MaxRequests
    /\ window \in 1..MaxWindow
    /\ requests = <<>> /\ lock = 0 /\ instant = 0
    /\ callers = [c \in CallerIds |-> IdleCaller]
    /\ admitted = <<>>
    /\ cpres = [op |-> "none", value |-> FALSE, at |-> 0, ledger |-> <<>>]

SpecLimiterAny == LimiterAnyInit /\ [][LimiterNext]_vars

\* ------------------------------------------------------------------------
\* TwitterAdapter (remote/twitter.rs).  A TwitterAdapter holds an HTTP client
\* and an OAuth token, and nothing else.  Each RemoteAdapter call sends one
\* HTTP request; the outcome of the request is the host's to choose:
\*   "ok"      a success status and a body with data,
\*   "send"    the request could not be sent,
\*   "status"  a status that is not a success,
\*   "parse"   a body that is not the expected JSON,
\*   "nodata"  a body with no data field.
\* ------------------------------------------------------------------------

MaxCalls == 3       \* RemoteAdapter calls made

HttpOutcomes == {"ok", "send", "status", "parse", "nodata"}

\* RetryConfig::default().max_attempts
DEFAULT_MAX_ATTEMPTS == 3

TwitterInit ==
    /\ FsInit /\ GraphIdle /\ ChunkIdle /\ RetryIdle /\ LimiterIdle /\ RaceIdle
    /\ http = <<>>
    /\ tcalls = <<>>

\* one HTTP request of the call being made, and what the call returns
Request(op, method, outcome, ok) ==
    /\ Len(tcalls) < MaxCalls
    /\ http' = Append(http, [call |-> Len(tcalls) + 1, method |-> method, outcome |-> outcome])
    /\ tcalls' = Append(tcalls, [op |-> op, ok |-> ok])
    /\ UNCHANGED <<fsVars, graphVars, chunkVars, retryVars, limiterVars, raceVars>>

\* fetch: get_tweet(id)?, the text of the tweet
TwitterFetch(outcome) == Request("fetch", "GET", outcome, outcome = "ok")

\* store: post_tweet(text)
TwitterStore(outcome) == Request("store", "POST", outcome, outcome = "ok")

\* store_reply: post_reply(parent_id, text)
TwitterStoreReply(outcome) == Request("store_reply", "POST", outcome, outcome = "ok")

\* fetch_replies: get_replies(id)?; a body with no data is an empty list
TwitterFetchReplies(outcome) ==
    Request("fetch_replies", "GET", outcome, outcome \in {"ok", "nodata"})

TwitterNext ==
    \/ \E outcome \in HttpOutcomes : TwitterFetch(outcome)
    \/ \E outcome \in HttpOutcomes : TwitterStore(outcome)
    \/ \E outcome \in HttpOutcomes : TwitterStoreReply(outcome)
    \/ \E outcome \in HttpOutcomes : TwitterFetchReplies(outcome)

SpecTwitter == TwitterInit /\ [][TwitterNext]_vars

\* ------------------------------------------------------------------------
\* open(path, Create) call by call (lib.rs:147-183).  XFS instances that share
\* the persistent index and the remote host each run one open at a time
\* (open takes &mut self); the awaited calls of an open on one instance
\* interleave with the calls of the other instances.  opens[fs] is the open
\* in progress on instance fs: pc names the next call it makes.  Opens in the
\* other modes, writes and deletes are the steps of Spec, without failures.
\* ------------------------------------------------------------------------

RaceInit ==
    /\ FsInit /\ GraphIdle /\ ChunkIdle
    /\ RetryIdle /\ LimiterIdle /\ TwitterIdle
    /\ RaceIdle

RaceFrame == UNCHANGED <<cache, oplog, faults, calls, opened, graphVars, chunkVars, remoteVars>>

\* the slots of handles that hold no handle yet
UnusedSlots == {h \in HandleIds : handles[h].st = "unused"}

\* let root_id = self.store.get_file_root(path).await?; (Some(_), Create) is
\* the already-exists error, (None, Create) goes on to adapter.store
OpenCreate_get_file_root(fs, path) ==
    /\ opens[fs].pc = "idle"
    /\ IF get_file_root(files, path) # 0
       THEN /\ res' = Err("open", "Other: File already exists")
            /\ UNCHANGED opens
       ELSE /\ opens' = [opens EXCEPT ![fs] = [pc |-> "store", path |-> path, root_id |-> 0]]
            /\ UNCHANGED res
    /\ UNCHANGED <<tweets, commits, files, handles, now>>
    /\ RaceFrame

\* let root_id = self.adapter.store(b"").await?;
OpenCreate_store(fs) ==
    /\ opens[fs].pc = "store"
    /\ Len(tweets) < MaxPosts
    /\ tweets' = store(tweets, <<>>)
    /\ opens' = [opens EXCEPT ![fs].pc = "store_commit", ![fs].root_id = generate_id(tweets)]
    /\ UNCHANGED <<commits, files, handles, now, res>>
    /\ RaceFrame

\* Commit::new(root_id, vec![], ...); self.store.store_commit(&commit).await?;
OpenCreate_store_commit(fs) ==
    /\ opens[fs].pc = "store_commit"
    /\ ClockRead
    /\ commits' = store_commit(commits, Commit_new(opens[fs].root_id, <<>>, User,
                                                    compute_hash(<<>>), "text/plain", 0, now'))
    /\ opens' = [opens EXCEPT ![fs].pc = "register_file"]
    /\ UNCHANGED <<tweets, files, handles, res>>
    /\ RaceFrame

\* self.store.register_file(path, &root_id).await?;
OpenCreate_register_file(fs) ==
    /\ opens[fs].pc = "register_file"
    /\ files' = register_file(files, opens[fs].path, opens[fs].root_id)
    /\ opens' = [opens EXCEPT ![fs].pc = "set_head"]
    /\ UNCHANGED <<tweets, commits, handles, now, res>>
    /\ RaceFrame

\* self.store.set_head(&root_id).await?; Ok(XFile::new(path, root_id, ...));
\* the handle is kept in the first unused slot, if there is one
OpenCreate_set_head(fs) ==
    /\ opens[fs].pc = "set_head"
    /\ commits' = set_head(commits, opens[fs].root_id)
    /\ handles' = IF UnusedSlots = {} THEN handles
                  ELSE [handles EXCEPT ![CHOOSE h \in UnusedSlots : \A j \in UnusedSlots : h <= j] =
                            XFile_new(opens[fs].path, opens[fs].root_id, fs)]
    /\ res' = Ok("open", <<>>)
    /\ opens' = [opens EXCEPT ![fs] = NoOpen]
    /\ UNCHANGED <<tweets, files, now>>
    /\ RaceFrame

RaceNext ==
    \/ \E fs \in FSIds, path \in Paths : OpenCreate_get_file_root(fs, path)
    \/ \E fs \in FSIds : OpenCreate_store(fs)
    \/ \E fs \in FSIds : OpenCreate_store_commit(fs)
    \/ \E fs \in FSIds : OpenCreate_register_file(fs)
    \/ \E fs \in FSIds : OpenCreate_set_head(fs)
    \/ \E h \in HandleIds, fs \in FSIds, path \in Paths, mode \in {"ReadOnly", "ReadWrite"} :
          opens[fs].pc = "idle" /\ Open(h, fs, path, mode, 0)
    \/ \E h \in HandleIds, data \in Payloads : Write(h, data, 0)
    \/ \E h \in HandleIds : Delete(h, 0)

SpecOpenRace == RaceInit /\ [][RaceNext]_vars

\* ------------------------------------------------------------------------
\* The specification of write and delete call by call: every remote and
\* database call of XFile::write and XFile::delete is a step of its own, so
\* that the calls of handles on one path interleave.  No call fails here.
\* ------------------------------------------------------------------------

WriteRaceInit ==
    /\ FsInit /\ GraphIdle /\ ChunkIdle
    /\ RetryIdle /\ LimiterIdle /\ TwitterIdle
    /\ RaceIdle

WriteRaceFrame == UNCHANGED <<files, faults, opens, opened, graphVars, chunkVars, remoteVars>>

\* let hash = compute_hash(data); let chunks = chunk_content(data)?;
Write_chunk_content(h, data) ==
    /\ handles[h].st = "open"
    /\ calls[h].pc = "idle"
    /\ calls' = [calls EXCEPT ![h] = [pc |-> "store_reply", op |-> "write", data |-> data,
                                      chunks |-> chunk_content(data), chunk_ids |-> <<>>]]
    /\ UNCHANGED <<tweets, commits, cache, handles, now, res, oplog>>
    /\ WriteRaceFrame

\* let tombstone = b"[DELETED]";
Delete_tombstone(h) ==
    /\ handles[h].st = "open"
    /\ calls[h].pc = "idle"
    /\ calls' = [calls EXCEPT ![h] = [pc |-> "store_reply", op |-> "delete", data |-> Tombstone,
                                      chunks |-> <<Tombstone>>, chunk_ids |-> <<>>]]
    /\ UNCHANGED <<tweets, commits, cache, handles, now, res, oplog>>
    /\ WriteRaceFrame

\* self.adapter.store_reply(&self.head, &chunks[0]) for the first segment,
\* self.adapter.store_reply(&prev_id, chunk) for every next one
Call_store_reply(h) ==
    LET c == calls[h]
        i == Len(c.chunk_ids) + 1
        parent_id == IF i = 1 THEN handles[h].head ELSE c.chunk_ids[i - 1]
    IN  /\ c.pc = "store_reply"
        /\ Len(tweets) < MaxPosts
        /\ tweets' = store_reply(tweets, parent_id, c.chunks[i])
        /\ calls' = [calls EXCEPT ![h].chunk_ids = Append(@, generate_id(tweets)),
                                  ![h].pc = IF i = Len(c.chunks) THEN "store_commit"
                                            ELSE "store_reply"]
        /\ UNCHANGED <<commits, cache, handles, now, res, oplog>>
        /\ WriteRaceFrame

\* Commit::new(first_id, vec![self.head], ...); self.store.store_commit(&commit)
Call_store_commit(h) ==
    LET c == calls[h]
        mime == IF c.op = "write" THEN "text/plain" ELSE TombstoneMime
        commit == Commit_new(c.chunk_ids[1], <<handles[h].head>>, User, compute_hash(c.data),
                             mime, Len(c.data), now')
    IN  /\ c.pc = "store_commit"
        /\ ClockRead
        /\ commits' = store_commit(commits, commit)
        /\ calls' = [calls EXCEPT ![h].pc = "set_head"]
        /\ UNCHANGED <<tweets, cache, handles, res, oplog>>
        /\ WriteRaceFrame

\* self.store.set_head(&first_id); self.head = first_id; write then puts the
\* data in the cache; Ok(())
Call_set_head(h) ==
    LET c == calls[h]
        f == handles[h]
        first_id == c.chunk_ids[1]
    IN  /\ c.pc = "set_head"
        /\ commits' = set_head(commits, first_id)
        /\ handles' = [handles EXCEPT ![h].head = first_id]
        /\ cache' = IF c.op = "write"
                    THEN [cache EXCEPT ![f.fs] = cache_put(@, first_id, c.data)]
                    ELSE cache
        /\ res' = Ok(c.op, IF c.op = "write" THEN c.data ELSE <<>>)
        /\ oplog' = [oplog EXCEPT ![f.path] =
                        Append(@, [h |-> h, fs |-> f.fs, op |-> c.op, old |-> f.head,
                                   new |-> first_id, data |-> c.data])]
        /\ calls' = [calls EXCEPT ![h] = NoCall]
        /\ UNCHANGED <<tweets, now>>
        /\ WriteRaceFrame

WriteRaceNext ==
    \/ \E h \in HandleIds, fs \in FSIds, path \in Paths, mode \in Modes :
          Open(h, fs, path, mode, 0)
    \/ \E h \in HandleIds, data \in Payloads : Write_chunk_content(h, data)
    \/ \E h \in HandleIds : Delete_tombstone(h)
    \/ \E h \in HandleIds : Call_store_reply(h)
    \/ \E h \in HandleIds : Call_store_commit(h)
    \/ \E h \in HandleIds : Call_set_head(h)

SpecWriteRace == WriteRaceInit /\ [][WriteRaceNext]_vars

\* ------------------------------------------------------------------------
\* The specification of the open modes: the steps of Spec without failures,
\* and a record of the mode every handle was opened with (XFile keeps none).
\* ------------------------------------------------------------------------

ModesInit ==
    /\ FsInit /\ GraphIdle /\ ChunkIdle
    /\ RetryIdle /\ LimiterIdle /\ TwitterIdle
    /\ RaceIdle

\* XFS::open, and the mode of the handle it returned
OpenIn(h, fs, path, mode) ==
    /\ XFS_open(h, fs, path, mode, 0)
    /\ opened' = IF res'.ok THEN [opened EXCEPT ![h] = mode] ELSE opened
    /\ UNCHANGED <<oplog, opens, calls, graphVars, chunkVars, remoteVars>>

ModesNext ==
    \/ \E h \in HandleIds, fs \in FSIds, path \in Paths, mode \in Modes : OpenIn(h, fs, path, mode)
    \/ \E h \in HandleIds : Read(h)
    \/ \E h \in HandleIds, data \in Payloads : Write(h, data, 0)
    \/ \E h \in HandleIds : Delete(h, 0)

SpecModes == ModesInit /\ [][ModesNext]_vars

\* ------------------------------------------------------------------------
\* The specification of the commits table: commits are stored, flagged and
\* read back through SqliteStore.
\* ------------------------------------------------------------------------

MaxStoreIds == 2    \* ids of the commits that are stored

StoreIds == 1..MaxStoreIds

\* the commits that are stored: built by Commit::new at any tick of the
\* clock; a caller may set is_head before storing
StoreCommits ==
    {[Commit_new(id, parents, User, compute_hash(<<id>>), "text/plain", 1, clock)
         EXCEPT !.is_head = is_head] :
        id \in StoreIds, parents \in {<<>>, <<1>>, <<1, 2>>, <<2, 1>>},
        clock \in 0..MaxTime, is_head \in BOOLEAN}

StoreInit == FsInit /\ GraphIdle /\ ChunkIdle /\ RemoteIdle

StoreFrame ==
    UNCHANGED <<tweets, files, cache, handles, now, oplog, faults,
                graphVars, chunkVars, remoteVars, raceVars>>

\* SqliteStore::store_commit
StoreCommit(commit) ==
    /\ commits' = store_commit(commits, commit)
    /\ res' = Ok("store_commit", commit)
    /\ StoreFrame

\* SqliteStore::set_head
SetHead(id) ==
    /\ commits' = set_head(commits, id)
    /\ res' = Ok("set_head", id)
    /\ StoreFrame

\* SqliteStore::get_commit: Some(commit), or None (the empty sequence)
GetCommit(id) ==
    /\ res' = Ok("get_commit", IF id \in DOMAIN commits THEN get_commit(commits, id) ELSE <<>>)
    /\ UNCHANGED commits
    /\ StoreFrame

StoreNext ==
    \/ \E commit \in StoreCommits : StoreCommit(commit)
    \/ \E id \in StoreIds : SetHead(id)
    \/ \E id \in StoreIds : GetCommit(id)

SpecStore == StoreInit /\ [][StoreNext]_vars

\* ------------------------------------------------------------------------
\* The specification of the directory listing: files are created one after
\* the other on one instance, and list is called between the creations.
\* ------------------------------------------------------------------------

ListPaths == {"logs/a.log", "logs/b.log", "logs.txt", "top.txt"}
ListArgs == {"", "/", "l", "logs", "logs/", "top.txt"}

\* str::starts_with, str::ends_with
starts_with(s, prefix) == Len(prefix) <= Len(s) /\ SubSeq(s, 1, Len(prefix)) = prefix
ends_with(s, suffix) ==
    Len(suffix) <= Len(s) /\ SubSeq(s, Len(s) - Len(suffix) + 1, Len(s)) = suffix

\* SELECT path FROM files ORDER BY path: the paths, as a set (the order of the
\* rows is not represented)
list_files(f) == DOMAIN f

\* list that filters by its argument as it is given
XFS_list_as_given(f, path) ==
    IF path = "" \/ path = "/" THEN list_files(f)
    ELSE {p \in list_files(f) : starts_with(p, path)}

\* XFS::list
XFS_list(f, path) ==
    LET all_paths == list_files(f) IN
    IF path = "" \/ path = "/" THEN all_paths
    ELSE LET prefix == IF ends_with(path, "/") THEN path ELSE path \o "/"
         IN  {p \in all_paths : starts_with(p, prefix)}

ListFrame == UNCHANGED <<cache, handles, oplog, faults, graphVars, chunkVars, remoteVars, raceVars>>

\* open(path, Create) that succeeds, and the drop of the XFile it returns
ListCreate(path) ==
    LET root_id == generate_id(tweets)
        commit == Commit_new(root_id, <<>>, User, compute_hash(<<>>), "text/plain", 0, now')
    IN  /\ get_file_root(files, path) = 0
        /\ ClockRead
        /\ tweets' = store(tweets, <<>>)
        /\ commits' = set_head(store_commit(commits, commit), root_id)
        /\ files' = register_file(files, path, root_id)
        /\ res' = Ok("open", <<>>)
        /\ ListFrame

\* XFS::list
List(path) ==
    /\ res' = Ok("list", [path |-> path, paths |-> XFS_list(files, path)])
    /\ UNCHANGED <<tweets, commits, files, now>>
    /\ ListFrame

ListInit == FsInit /\ GraphIdle /\ ChunkIdle /\ RemoteIdle

ListNext ==
    \/ \E path \in ListPaths : ListCreate(path)
    \/ \E path \in ListArgs : List(path)

SpecList == ListInit /\ [][ListNext]_vars

\* ------------------------------------------------------------------------
\* Properties of the filesystem layer
\* ------------------------------------------------------------------------

Last(seq) == seq[Len(seq)]

\* the successful write through which the handle in slot h got its head
OwnWrites(h) ==
    {i \in 1..Len(oplog[handles[h].path]) :
        LET e == oplog[handles[h].path][i]
        IN  e.h = h /\ e.op = "write" /\ e.new = handles[h].head}

\* C1: a read() on a handle whose head was set by a successful write(data) on
\* that handle (in particular a read() that directly follows the write)
\* returns exactly data, also when data is longer than one segment.
C1_ReadYourWrites ==
    [][\A h \in HandleIds :
          (handles[h].st = "open" /\ OwnWrites(h) # {} /\ Read(h)) =>
              /\ res'.ok
              /\ \A i \in OwnWrites(h) : res'.val = oplog[handles[h].path][i].data]_vars

\* a read returned the two segments' content that the reading handle wrote
C1_Witness ==
    /\ res.op = "read" /\ res.ok
    /\ Len(res.val) > TWEET_MAX_SIZE
    /\ \E h \in HandleIds :
          /\ handles[h].st = "open"
          /\ \E i \in OwnWrites(h) : oplog[handles[h].path][i].data = res.val

\* every call that changed path p was a successful write through one handle
SoleWriter(p) ==
    /\ p \in DOMAIN files
    /\ \A i \in 1..Len(faults) : ~(faults[i].path = p /\ faults[i].op \in {"write", "delete"})
    /\ \A i \in 1..Len(oplog[p]) : oplog[p][i].op = "write" /\ oplog[p][i].h = oplog[p][1].h

\* C2: after n successful writes through a single handle on a freshly created
\* file, and no other write or delete on it, history(path) holds exactly n+1
\* commits, the root and one per write; the commit of the i-th write has one
\* parent, the head the handle held before that write, which is the root for
\* the first write and the commit of the write before it otherwise.
C2_LinearHistory ==
    \A p \in Paths :
        SoleWriter(p) =>
            LET hist == history(commits, files, p)
                log == oplog[p]
                n == Len(log)
            IN  /\ Len(hist) = n + 1
                /\ {hist[i].id : i \in 1..Len(hist)} = {files[p]} \cup {log[i].new : i \in 1..n}
                /\ \A i \in 1..Len(hist) : hist[i].id = files[p] => hist[i].parents = <<>>
                /\ \A i \in 1..n :
                      /\ log[i].new \in DOMAIN commits
                      /\ commits[log[i].new].parents = <<log[i].old>>
                      /\ log[i].old = IF i = 1 THEN files[p] ELSE log[i - 1].new

\* two writes through one handle, and nothing else, on a path
C2_Witness ==
    \E p \in Paths :
        /\ SoleWriter(p)
        /\ Len(oplog[p]) = 2
        /\ Len(history(commits, files, p)) = 3

\* the writes on p were successful writes through one handle, now dropped
SoleWriterDropped(p) ==
    /\ SoleWriter(p)
    /\ oplog[p] # <<>>
    /\ handles[oplog[p][1].h].st = "dropped"

\* C3: after successful writes through one handle that is then dropped,
\* open(path, ReadOnly | ReadWrite) returns a handle whose head is the commit
\* of the last write, and read() on a handle so opened on the filesystem
\* instance of the writer returns the data of the last write.
C3_ReopenLatest ==
    [][/\ \A h \in HandleIds, fs \in FSIds, p \in Paths, mode \in {"ReadOnly", "ReadWrite"} :
            (SoleWriterDropped(p) /\ Open(h, fs, p, mode, 0)) =>
                /\ res'.ok
                /\ handles'[h] = XFile_new(p, Last(oplog[p]).new, fs)
       /\ \A h \in HandleIds :
            (/\ handles[h].st = "open"
             /\ SoleWriterDropped(handles[h].path)
             /\ handles[h].head = Last(oplog[handles[h].path]).new
             /\ handles[h].fs = Last(oplog[handles[h].path]).fs
             /\ Read(h)) =>
                (res'.ok /\ res'.val = Last(oplog[handles[h].path]).data)]_vars

\* a handle opened after the writer was dropped read the last write, of two
\* segments
C3_Witness ==
    /\ res.op = "read" /\ res.ok
    /\ Len(res.val) > TWEET_MAX_SIZE
    /\ \E h \in HandleIds :
          /\ handles[h].st = "open"
          /\ SoleWriterDropped(handles[h].path)
          /\ handles[h].head = Last(oplog[handles[h].path]).new
          /\ res.val = Last(oplog[handles[h].path]).data

\* C4: open(path, Create) on a registered path fails with the already-exists
\* error and makes no post, adds no commit, and leaves the registered roots,
\* the caches and the handles as they were.
C4_CreateExistingFails ==
    [][\A h \in HandleIds, fs \in FSIds, p \in Paths, fail \in 0..MaxFail :
          (p \in DOMAIN files /\ Open(h, fs, p, "Create", fail)) =>
              /\ ~res'.ok
              /\ res'.err = "Other: File already exists"
              /\ UNCHANGED <<tweets, commits, files, cache, handles>>]_vars

\* a second open(Create) was refused
C4_Witness ==
    /\ res.op = "open" /\ ~res.ok
    /\ res.err = "Other: File already exists"
    /\ files # EmptyMap

\* C5: open(path, ReadOnly | ReadWrite) on an unregistered path fails with
\* FileNotFound, makes no remote call and leaves the index and the caches as
\* they were.
C5_OpenMissingFails ==
    [][\A h \in HandleIds, fs \in FSIds, p \in Paths, fail \in 0..MaxFail,
          mode \in {"ReadOnly", "ReadWrite"} :
          (p \notin DOMAIN files /\ Open(h, fs, p, mode, fail)) =>
              /\ ~res'.ok
              /\ res'.err = "FileNotFound"
              /\ p \notin DOMAIN files'
              /\ UNCHANGED <<tweets, commits, files, cache, handles>>]_vars

\* an open of a path that is not registered was refused, with files registered
\* under other paths
C5_Witness ==
    /\ res.op = "open" /\ ~res.ok
    /\ res.err = "FileNotFound"
    /\ files # EmptyMap
    /\ DOMAIN files # Paths

\* C6: a successful open(path, Create) on an unregistered path makes exactly
\* one post, a root post with an empty payload; persists exactly one commit,
\* whose id is that post, with no parents and size 0; registers path with that
\* id as root; and returns a handle whose head is that root.
C6_CreateRoot ==
    [][\A h \in HandleIds, fs \in FSIds, p \in Paths :
          (p \notin DOMAIN files /\ Open(h, fs, p, "Create", 0)) =>
              LET id == Len(tweets) + 1 IN
              /\ res'.ok
              /\ tweets' = Append(tweets, [content |-> <<>>, parent_id |-> 0])
              /\ id \notin DOMAIN commits
              /\ DOMAIN commits' = DOMAIN commits \cup {id}
              /\ \A c \in DOMAIN commits : commits'[c] = commits[c]
              /\ commits'[id].parents = <<>>
              /\ commits'[id].size = 0
              /\ DOMAIN files' = DOMAIN files \cup {p}
              /\ \A q \in DOMAIN files : files'[q] = files[q]
              /\ files'[p] = id
              /\ handles'[h] = XFile_new(p, id, fs)]_vars

\* the first call of a run was an open(Create), and it succeeded
C6_Witness ==
    /\ res.op = "open" /\ res.ok
    /\ handles[1].st = "open" /\ handles[2].st = "unused"
    /\ handles[1].head = Len(tweets)
    /\ files = Put(EmptyMap, handles[1].path, handles[1].head)

\* C18 (as claimed): the bytes a successful read() returns have the digest
\* that the head commit of the handle records.
C18_ReadMatchesHash ==
    [][\A h \in HandleIds :
          (Read(h) /\ res'.ok /\ handles[h].head \in DOMAIN commits) =>
              compute_hash(res'.val) = commits[handles[h].head].hash]_vars

\* C19 (as claimed): every cache entry under the id of a commit holds bytes
\* with the digest and the length that the commit records.
C19_CacheHoldsFullPayload ==
    \A fs \in FSIds : \A id \in DOMAIN cache[fs] :
        id \in DOMAIN commits =>
            /\ compute_hash(cache[fs][id]) = commits[id].hash
            /\ Len(cache[fs][id]) = commits[id].size

\* C20 (as claimed): whatever the interleaving of the open, write and delete
\* calls of the instances that share the index, no step changes or removes
\* the registered root of a path: get_file_root(path) stays the root that the
\* first successful open(path, Create) registered.
C20_RootNeverChanges ==
    [][\A p \in DOMAIN files : p \in DOMAIN files' /\ files'[p] = files[p]]_vars

\* ------------------------------------------------------------------------
\* Properties of the commit graph
\* ------------------------------------------------------------------------

\* the loaded commits that name a member of S as a parent
ChildrenOf(g, S) == {id \in DOMAIN g : \E p \in S : Contains(g[id].parents, p)}

\* what is reached from S by following child links
RECURSIVE Descendants(_, _)
Descendants(g, S) ==
    LET T == S \cup ChildrenOf(g, S) IN IF T = S THEN S ELSE Descendants(g, T)

\* the loaded commits reachable from start that no loaded commit names as a parent
ChildlessReachable(g, start) ==
    {id \in Descendants(g, {start}) \cap DOMAIN g : ChildrenOf(g, {id}) = {}}

\* g is a chain start, c1, ..., cn of single-parent commits
IsLinearChain(g, start) ==
    /\ start \in DOMAIN g
    /\ g[start].parents = <<>>
    /\ Descendants(g, {start}) = DOMAIN g
    /\ \A id \in DOMAIN g \ {start} : Len(g[id].parents) = 1
    /\ \A id \in DOMAIN g : Cardinality(ChildrenOf(g, {id})) <= 1

\* C7: when find_head(start) succeeds, the commit it returns is reachable from
\* start by child links, is named as a parent by no loaded commit, and no other
\* such commit has a later timestamp; on a linear chain it succeeds and returns
\* the last commit of the chain.
C7_FindHeadLatestHead ==
    gres.op = "find_head" =>
        /\ gres.ok =>
              /\ gres.ids[1] \in ChildlessReachable(graph, gres.start)
              /\ \A o \in ChildlessReachable(graph, gres.start) :
                    graph[o].timestamp <= graph[gres.ids[1]].timestamp
        /\ IsLinearChain(graph, gres.start) =>
              /\ gres.ok
              /\ ChildlessReachable(graph, gres.start) = {gres.ids[1]}

\* a fork whose later head was returned
C7_Witness ==
    /\ gres.op = "find_head" /\ gres.ok
    /\ \E o \in ChildlessReachable(graph, gres.start) :
          graph[o].timestamp < graph[gres.ids[1]].timestamp

\* C8 (as claimed): detect_forks(root) returns exactly the ids of the loaded
\* commits reachable from root that have no child among the loaded commits,
\* each once.
C8_DetectForksExact ==
    gres.op = "detect_forks" =>
        /\ {gres.ids[i] : i \in 1..Len(gres.ids)} = ChildlessReachable(graph, gres.start)
        /\ Len(gres.ids) = Cardinality(ChildlessReachable(graph, gres.start))

\* C9: find_head(start) fails (CommitNotFound) when start is not loaded,
\* and when no childless commit is reachable from start.
C9_FindHeadFails ==
    (/\ gres.op = "find_head"
     /\ \/ gres.start \notin DOMAIN graph
        \/ ChildlessReachable(graph, gres.start) = {})
    => ~gres.ok

\* start is not loaded, a loaded childless commit names it as a parent, and
\* find_head failed
C9_Witness ==
    /\ gres.op = "find_head" /\ ~gres.ok
    /\ gres.start \notin DOMAIN graph
    /\ \E c \in DOMAIN graph :
          Contains(graph[c].parents, gres.start) /\ ChildrenOf(graph, {c}) = {}

\* ------------------------------------------------------------------------
\* Properties of the chunker
\* ------------------------------------------------------------------------

\* C10: recombine(chunk(c)) = c, and chunk(c) is one segment exactly when
\* len(c) <= MAX_SEGMENT.
C10_ChunkRoundTrip ==
    /\ cstage = "recombined" => recombined = content
    /\ cstage \in {"chunked", "recombined"} =>
          (Len(chunks) = 1 <=> Len(content) <= TWEET_MAX_SIZE)

\* a content of three segments went through chunk and recombine
C10_Witness ==
    /\ cstage = "recombined"
    /\ Len(chunks) = 3
    /\ recombined = content

\* the number of bytes of content that come before segment i
SegmentStart(i) == (i - 1) * TWEET_MAX_SIZE

\* C11: for content longer than MAX_SEGMENT the segments are non-empty and of
\* at most MAX_SEGMENT bytes, every segment but the last of exactly
\* MAX_SEGMENT bytes; segment i is the slice of content that starts where
\* segment i-1 ended (in order, no gap, no overlap), the last one ends where
\* content ends, and there are ceil(len / MAX_SEGMENT) segments.
C11_SegmentsCoverInOrder ==
    (cstage \in {"chunked", "recombined"} /\ Len(content) > TWEET_MAX_SIZE) =>
        LET n == Len(chunks) IN
        /\ n = (Len(content) + TWEET_MAX_SIZE - 1) \div TWEET_MAX_SIZE
        /\ \A i \in 1..n :
              /\ Len(chunks[i]) \in 1..TWEET_MAX_SIZE
              /\ i < n => Len(chunks[i]) = TWEET_MAX_SIZE
              /\ chunks[i] = SubSeq(content, SegmentStart(i) + 1,
                                    SegmentStart(i) + Len(chunks[i]))
        /\ SegmentStart(n) + Len(chunks[n]) = Len(content)

\* a content of two full segments and a last segment of two bytes was chunked
C11_Witness ==
    /\ cstage = "chunked"
    /\ Len(content) = 2 * TWEET_MAX_SIZE + 2
    /\ Len(chunks) = 3
    /\ Len(chunks[3]) = 2

\* ------------------------------------------------------------------------
\* Properties of retry_with_backoff
\* ------------------------------------------------------------------------

\* C12 (as claimed): when every call of f fails, retry_with_backoff returns
\* after exactly max_attempts calls of f, with the error of the last call.
C12_FailsAfterMaxAttempts ==
    (rpc = "done" /\ \A i \in 1..Len(invocations) : invocations[i] = "err") =>
        /\ Len(invocations) = config.max_attempts
        /\ rret = [ok |-> FALSE, of |-> Len(invocations)]

\* C13: when a call of f succeeds, it is the last call made: with k calls made
\* so far, retry_with_backoff has returned the value of call k, and k - 1
\* sleeps were made, where k <= max_attempts (k = 1 when max_attempts = 0).
\* It holds in every state, so no call and no sleep follows a success.
C13_ReturnsAtFirstSuccess ==
    \A k \in 1..Len(invocations) :
        invocations[k] = "ok" =>
            /\ k = Len(invocations)
            /\ k <= config.max_attempts \/ k = 1
            /\ rpc = "done"
            /\ rret = [ok |-> TRUE, of |-> k]
            /\ Len(sleeps) = k - 1

\* f failed twice and succeeded on its third call, the last one allowed
C13_Witness ==
    /\ rpc = "done" /\ rret.ok
    /\ config.max_attempts = 3
    /\ invocations = <<"err", "err", "ok">>
    /\ Len(sleeps) = 2

\* C40 (as claimed): for every RetryConfig, no sleep between two attempts is
\* longer than max_backoff; the first sleep lasts initial_backoff and every
\* later one lasts the one before it times multiplier, capped at max_backoff.
C40_BackoffCapped ==
    /\ \A i \in 1..Len(sleeps) : sleeps[i] <= config.max_backoff
    /\ Len(sleeps) >= 1 => sleeps[1] = config.initial_backoff
    /\ \A i \in 2..Len(sleeps) :
          sleeps[i] = Min(sleeps[i - 1] * config.multiplier, config.max_backoff)

\* ------------------------------------------------------------------------
\* Properties of the rate limiter
\* ------------------------------------------------------------------------

\* the recorded timestamps that lie in the interval [t, t + window)
AdmittedIn(t) == {i \in 1..Len(admitted) : t <= admitted[i] /\ admitted[i] < t + window}

\* C14 (as claimed): whatever the interleaving of the acquire callers, no
\* interval of length window holds more than max_requests recorded timestamps.
C14_WindowNeverOverfull ==
    \A i \in 1..Len(admitted) : Cardinality(AdmittedIn(admitted[i])) <= max_requests

\* C15 (as claimed), for a call of acquire during which no other task is in
\* acquire: below the limit it goes on to record without sleeping; it never
\* ends without recording; and when it records, fewer than max_requests of
\* the timestamps recorded before lie within the last window (the oldest of a
\* full window has left it), and exactly one timestamp is recorded.
C15_SequentialAcquire ==
    [][\A c \in CallerIds :
          callers[c].alone =>
              /\ (AcquireCheck(c) /\ Len(requests) < max_requests) => callers'[c].pc = "push"
              /\ AcquireCheck(c) => callers'[c].pc # "panicked"
              /\ AcquirePush(c) =>
                    /\ Len(retain(admitted, instant - window)) < max_requests
                    /\ admitted' = Append(admitted, instant)]_vars

\* C16: can_proceed records nothing and leaves every task where it is; it
\* only drops the timestamps that are not later than now - window, and it
\* returns true exactly when fewer than max_requests timestamps are left.
C16_CanProceedPeeks ==
    [][\A c \in CallerIds :
          CanProceed(c) =>
              /\ admitted' = admitted
              /\ callers' = callers /\ lock' = lock
              /\ requests' = SelectSeq(requests, LAMBDA ts : ts > instant - window)
              /\ cpres'.value =
                    (Cardinality({i \in 1..Len(requests) : requests[i] > instant - window})
                        < max_requests)]_vars

\* can_proceed returned false on a full window, after an older timestamp had
\* been dropped
C16_Witness ==
    /\ cpres.op = "can_proceed" /\ ~cpres.value
    /\ Len(requests) = max_requests
    /\ Len(admitted) > Len(requests)
    /\ lock = 0

\* C39 (as claimed): for every max_requests, 0 included, and every ledger,
\* can_proceed returns true exactly when an acquire at the same instant on the
\* same ledger goes on to record without sleeping.  The acquire is the one
\* that tests the limit at the instant of the last can_proceed, on the ledger
\* that can_proceed left.
C39_CanProceedIffNoWait ==
    [][\A c \in CallerIds :
          (AcquireCheck(c) /\ cpres.op = "can_proceed"
                /\ cpres.at = instant /\ cpres.ledger = requests) =>
              (cpres.value <=> callers'[c].pc = "push")]_vars

\* ------------------------------------------------------------------------
\* Properties of the network-backed adapter
\* ------------------------------------------------------------------------

\* the HTTP requests sent for the i-th RemoteAdapter call
RequestsOf(i) == {j \in 1..Len(http) : http[j].call = i}

\* C17 (as claimed): every fetch, store, store_reply and fetch_replies call of
\* the network-backed adapter is admitted by the rate limiter (an acquire has
\* recorded a timestamp for every request sent), and a call that fails has
\* made max_attempts attempts.
C17_AdmittedAndRetried ==
    /\ Len(admitted) >= Len(http)
    /\ \A i \in 1..Len(tcalls) :
          ~tcalls[i].ok => Cardinality(RequestsOf(i)) = DEFAULT_MAX_ATTEMPTS

\* ------------------------------------------------------------------------
\* Properties of write, delete and the queries of the filesystem layer
\* ------------------------------------------------------------------------

\* the step is a successful write (op = "write") or delete (op = "delete")
\* on path p: such a call, and no other, appends an entry to the log of p
Succeeded(p, op) == oplog'[p] # oplog[p] /\ Last(oplog'[p]).op = op

\* C21: a successful write(data) persists exactly one new commit, whose id is
\* the id of the first posted segment, whose parents are exactly the head the
\* handle held before the write, whose hash is the digest of the full data
\* and whose size is len(data); it advances the head of the handle to that id
\* and stores the full data in the cache of its instance under that id.
C21_WritePersistsOneCommit ==
    [][\A p \in Paths :
          Succeeded(p, "write") =>
              LET e == Last(oplog'[p]) IN
              /\ e.old = handles[e.h].head
              /\ e.new \notin DOMAIN commits
              /\ DOMAIN commits' = DOMAIN commits \cup {e.new}
              /\ \A id \in DOMAIN commits : commits'[id] = commits[id]
              /\ e.new = Len(tweets) + 1
              /\ Len(tweets') >= e.new
              /\ tweets'[e.new].content = SubSeq(e.data, 1, Min(TWEET_MAX_SIZE, Len(e.data)))
              /\ commits'[e.new].parents = <<e.old>>
              /\ commits'[e.new].hash = compute_hash(e.data)
              /\ commits'[e.new].size = Len(e.data)
              /\ handles'[e.h] = [handles[e.h] EXCEPT !.head = e.new]
              /\ e.new \in DOMAIN cache'[e.fs]
              /\ cache'[e.fs][e.new] = e.data]_vars

\* a write of two segments has just returned Ok: its commit records the
\* whole length, and the handle and the cache moved to it
C21_Witness ==
    /\ res.op = "write" /\ res.ok
    /\ \E p \in Paths :
          /\ oplog[p] # <<>>
          /\ LET e == Last(oplog[p]) IN
             /\ e.op = "write" /\ e.data = res.val
             /\ Len(e.data) > TWEET_MAX_SIZE
             /\ e.new \in DOMAIN commits
             /\ commits[e.new].size = Len(e.data)
             /\ handles[e.h].st = "open" /\ handles[e.h].head = e.new
             /\ e.new \in DOMAIN cache[e.fs]

\* the step is a write on path p that returned an error
WriteFailed(p) ==
    /\ faults' # faults
    /\ Last(faults') = [op |-> "write", path |-> p]

\* the posts that the step added are the first j segments cs of a write on a
\* handle that held head: the first is a reply to head, each next one a reply
\* to the post of the segment before it
PostedChain(cs, j, head) ==
    LET n == Len(tweets) IN
    /\ Len(tweets') = n + j
    /\ \A i \in 1..n : tweets'[i] = tweets[i]
    /\ \A i \in 1..j :
          /\ tweets'[n + i].content = cs[i]
          /\ tweets'[n + i].parent_id = IF i = 1 THEN head ELSE n + i - 1

\* C22: a write whose data splits into k segments makes exactly k remote
\* posts in segment order, the first a reply to the head of the handle and
\* the i-th a reply to the post of segment i-1, and the payloads of these
\* posts, concatenated along the reply chain, equal data.  (A write that fails
\* at a post has made the posts of the segments before it, in that order.)
C22_WritePostsReplyChain ==
    [][\A p \in Paths :
          /\ Succeeded(p, "write") =>
                LET e == Last(oplog'[p])
                    cs == chunk_content(e.data)
                    n == Len(tweets)
                IN  /\ PostedChain(cs, Len(cs), e.old)
                    /\ recombine_chunks([i \in 1..(Len(tweets') - n) |-> tweets'[n + i].content])
                          = e.data
          /\ WriteFailed(p) =>
                \E h \in HandleIds, data \in Payloads : \E j \in 0..Len(chunk_content(data)) :
                    /\ handles[h].st = "open" /\ handles[h].path = p
                    /\ PostedChain(chunk_content(data), j, handles[h].head)]_vars

\* a write of two segments has returned Ok: the last two posts are its
\* segments, the second a reply to the first, the first a reply to the old head
C22_Witness ==
    /\ res.op = "write" /\ res.ok
    /\ \E p \in Paths :
          /\ oplog[p] # <<>>
          /\ LET e == Last(oplog[p])
                 n == Len(tweets)
             IN  /\ e.op = "write" /\ e.data = res.val
                 /\ Len(chunk_content(e.data)) = 2
                 /\ n >= 3 /\ e.new = n - 1
                 /\ tweets[n].parent_id = n - 1
                 /\ tweets[n - 1].parent_id = e.old
                 /\ tweets[n - 1].content \o tweets[n].content = e.data

\* C23: a successful delete() posts one tombstone payload as a reply to the
\* head of the handle, persists one commit whose id is that post, whose sole
\* parent is the former head and whose mime type is the tombstone type, and
\* advances the head of the handle to it; no earlier commit is removed or
\* modified.
C23_DeleteAppendsTombstone ==
    [][\A p \in Paths :
          Succeeded(p, "delete") =>
              LET e == Last(oplog'[p]) IN
              /\ e.old = handles[e.h].head
              /\ PostedChain(<<Tombstone>>, 1, e.old)
              /\ e.new = Len(tweets')
              /\ e.new \notin DOMAIN commits
              /\ DOMAIN commits' = DOMAIN commits \cup {e.new}
              /\ commits'[e.new].parents = <<e.old>>
              /\ commits'[e.new].mime = TombstoneMime
              /\ handles'[e.h] = [handles[e.h] EXCEPT !.head = e.new]
              /\ \A id \in DOMAIN commits : commits'[id] = commits[id]]_vars

\* a delete has returned Ok on a file that had been written: the tombstone
\* commit is the head, and the root and the written commit are still there
C23_Witness ==
    /\ res.op = "delete" /\ res.ok
    /\ \E p \in Paths :
          /\ Len(oplog[p]) >= 2
          /\ LET e == Last(oplog[p]) IN
             /\ e.op = "delete"
             /\ oplog[p][Len(oplog[p]) - 1].op = "write"
             /\ e.new \in DOMAIN commits
             /\ commits[e.new].mime = TombstoneMime
             /\ tweets[e.new].content = Tombstone
             /\ handles[e.h].st = "open" /\ handles[e.h].head = e.new
             /\ {files[p], e.old} \subseteq DOMAIN commits
             /\ commits[e.old].mime = "text/plain"

\* C24 (as claimed): exists(path) is true if and only if some earlier
\* open(path, Create) succeeded: it becomes true only in a step that is a
\* successful open, a successful open(path, Create) makes it true, no step
\* makes it false again, and open(path, Create) fails as already existing
\* exactly when it is true.
C24_ExistsIffCreated ==
    [][\A p \in Paths :
          /\ (~file_exists(files, p) /\ file_exists(files', p)) => (res'.op = "open" /\ res'.ok)
          /\ file_exists(files, p) => file_exists(files', p)
          /\ \A h \in HandleIds, fs \in FSIds, fail \in 0..MaxFail :
                Open(h, fs, p, "Create", fail) =>
                    /\ res'.ok => file_exists(files', p)
                    /\ file_exists(files, p) <=> res' = Err("open", "Other: File already exists")]_vars

\* C25 (as claimed): list(prefix) returns exactly the registered paths that
\* start with prefix, and list("") and list("/") return every registered path.
C25_ListByPrefix ==
    res.op = "list" =>
        res.val.paths =
            IF res.val.path \in {"", "/"} THEN DOMAIN files
            ELSE {p \in DOMAIN files : starts_with(p, res.val.path)}

\* the directory prefix of a list argument: the argument, closed by a slash
DirPrefix(path) == IF ends_with(path, "/") THEN path ELSE path \o "/"

\* C25 (amended): list(path) returns exactly the registered paths that start
\* with path followed by "/" (with path itself when it ends with "/"), and
\* list("") and list("/") return every registered path; with logs/a.log,
\* logs/b.log and top.txt registered, list("logs") returns exactly the two
\* paths under logs.
C25_ListByDirectory ==
    res.op = "list" =>
        /\ res.val.paths =
              IF res.val.path \in {"", "/"} THEN DOMAIN files
              ELSE {p \in DOMAIN files : starts_with(p, DirPrefix(res.val.path))}
        /\ (DOMAIN files = {"logs/a.log", "logs/b.log", "top.txt"} /\ res.val.path = "logs")
              => res.val.paths = {"logs/a.log", "logs/b.log"}

\* list("logs") was called with logs/a.log, logs/b.log, logs.txt and top.txt
\* registered, and returned the two paths under logs
C25_Witness ==
    /\ res.op = "list" /\ res.val.path = "logs"
    /\ DOMAIN files = ListPaths
    /\ res.val.paths = {"logs/a.log", "logs/b.log"}

\* C26: history(path) on a registered path returns every persisted commit
\* reachable from the registered root through child links, each exactly once
\* (also when the history is forked), in ascending timestamp order; on an
\* unregistered path it fails with FileNotFound.
C26_HistoryReachableSorted ==
    \A p \in Paths :
        LET r == XFS_history(commits, files, p) IN
        IF p \in DOMAIN files
        THEN LET hist == r.val IN
             /\ r.ok
             /\ {hist[i].id : i \in 1..Len(hist)}
                   = Descendants(commits, {files[p]}) \cap DOMAIN commits
             /\ \A i, j \in 1..Len(hist) : hist[i].id = hist[j].id => i = j
             /\ \A i \in 1..Len(hist) : hist[i] = get_commit(commits, hist[i].id)
             /\ \A i, j \in 1..Len(hist) : i < j => hist[i].timestamp <= hist[j].timestamp
        ELSE r = Err("history", "FileNotFound")

\* a forked history: two commits written on the root at different seconds,
\* both returned after the root, the earlier one first
C26_Witness ==
    \E p \in DOMAIN files :
        LET hist == XFS_history(commits, files, p).val IN
        /\ Len(hist) = 3
        /\ hist[1].id = files[p]
        /\ hist[2].parents = <<files[p]>> /\ hist[3].parents = <<files[p]>>
        /\ hist[2].timestamp < hist[3].timestamp
        /\ \E q \in Paths : q \notin DOMAIN files

\* the persisted commits with no parent
ParentlessCommits == {id \in DOMAIN commits : commits[id].parents = <<>>}

\* the shape of the persisted commits: at most one parent each; the commits
\* with no parent are the posts made by store, which only open(Create) calls;
\* every parent is persisted and older; every commit descends from exactly
\* one commit with no parent, and the registered roots are such commits
CommitsFormForest ==
    /\ \A id \in DOMAIN commits :
          /\ Len(commits[id].parents) <= 1
          /\ id \in 1..Len(tweets)
          /\ commits[id].parents = <<>> <=> tweets[id].parent_id = 0
          /\ \A i \in 1..Len(commits[id].parents) :
                LET parent == commits[id].parents[i] IN
                /\ parent \in DOMAIN commits
                /\ parent < id
                /\ commits[parent].timestamp <= commits[id].timestamp
          /\ Cardinality({r \in ParentlessCommits : id \in Descendants(commits, {r})}) = 1
    /\ \A p \in DOMAIN files : files[p] \in ParentlessCommits

\* C28: in every state reachable through open, write and delete, every
\* persisted commit has at most one parent, the commits with no parent are
\* exactly the roots created by open(Create), and every parent id names a
\* commit that was persisted earlier (it has a row before the step that
\* persists the child), so the parent relation is acyclic and every commit
\* leads back to its root.
C28_CommitsFormForest ==
    /\ []CommitsFormForest
    /\ [][\A id \in DOMAIN commits' \ DOMAIN commits :
             \A i \in 1..Len(commits'[id].parents) :
                 commits'[id].parents[i] \in DOMAIN commits]_vars

\* both paths were created and one of them written: two roots and a commit
\* whose one parent is the root of its file
C28_Witness ==
    /\ Cardinality(ParentlessCommits) = 2
    /\ DOMAIN files = Paths
    /\ \E p \in Paths : \E id \in DOMAIN commits :
          /\ commits[id].parents = <<files[p]>>
          /\ oplog[p] # <<>> /\ Last(oplog[p]).new = id

\* the successful writes that produced the commit id
WritesOf(id) ==
    {e \in UNION {{oplog[p][i] : i \in 1..Len(oplog[p])} : p \in Paths} :
        e.op = "write" /\ e.new = id}

\* C29 (as claimed): the cache is transparent to read(): on every handle
\* whose head is a commit produced by write(data), of any length, read()
\* returns data, whether or not the cache of its instance holds an entry for
\* that head.
C29_CacheTransparent ==
    [][\A h \in HandleIds :
          (handles[h].st = "open" /\ WritesOf(handles[h].head) # {} /\ Read(h)) =>
              /\ res'.ok
              /\ \A e \in WritesOf(handles[h].head) : res'.val = e.data]_vars

\* the step is a write or a delete that returned an error
WriteOrDeleteFailed ==
    /\ faults' # faults
    /\ Last(faults').op \in {"write", "delete"}

\* C30: a write() or delete() that returns an error (a failed post of any
\* segment, a failed store_commit or a failed set_head) leaves the head of
\* the handle unchanged and adds no cache entry; the head of a handle
\* advances only in a write or delete that succeeds.
C30_FailureKeepsHead ==
    [][/\ WriteOrDeleteFailed =>
             /\ ~res'.ok
             /\ handles' = handles
             /\ cache' = cache
       /\ \A h \in HandleIds :
             (handles[h].st = "open" /\ handles'[h].st = "open"
                 /\ handles'[h].head # handles[h].head) =>
                 \E p \in Paths :
                     /\ oplog'[p] # oplog[p]
                     /\ Last(oplog'[p]).h = h
                     /\ Last(oplog'[p]).new = handles'[h].head]_vars

\* a write or delete failed at set_head: its commit has a row, but the head
\* of the handle is still the parent of that commit and no cache holds it
C30_Witness ==
    /\ ~res.ok /\ res.op \in {"write", "delete"} /\ res.err = "Database"
    /\ faults # <<>>
    /\ \E h \in HandleIds, id \in DOMAIN commits :
          /\ handles[h].st = "open"
          /\ commits[id].parents = <<handles[h].head>>
          /\ \A g \in HandleIds : handles[g].head # id
          /\ \A fs \in FSIds : id \notin DOMAIN cache[fs]
          /\ \A p \in Paths : \A i \in 1..Len(oplog[p]) : oplog[p][i].new # id

\* the posts with no persisted commit
Orphans == {i \in 1..Len(tweets) : i \notin DOMAIN commits}

\* the remote host as it would be had the posts with no persisted commit
\* never been threaded (they reply to nothing)
WithoutOrphans ==
    [i \in 1..Len(tweets) |->
        IF i \in Orphans THEN [tweets[i] EXCEPT !.parent_id = 0 - 1] ELSE tweets[i]]

\* the orphans have no part in what open and history return
OrphansInvisible ==
    \A p \in DOMAIN files :
        /\ XFS_find_head(tweets, commits, files[p])
              = XFS_find_head(WithoutOrphans, commits, files[p])
        /\ LET hist == XFS_history(commits, files, p).val
           IN  \A i \in 1..Len(hist) : hist[i].id \notin Orphans

\* the step is a write or delete that failed after it made a post and before
\* it persisted a commit
LeavesOrphan ==
    /\ WriteOrDeleteFailed
    /\ Len(tweets') > Len(tweets)
    /\ commits' = commits

\* C31: a remote post that has no persisted commit (left by a write that
\* failed after a successful post) is invisible: a later open(path, ReadOnly
\* or ReadWrite) resolves the same head as it would have before the failed
\* write, and history(path) does not contain the orphan, also when later
\* successful writes exist.
C31_OrphanInvisible ==
    /\ []OrphansInvisible
    /\ [][LeavesOrphan =>
             \A p \in DOMAIN files :
                 /\ XFS_find_head(tweets', commits', files'[p])
                       = XFS_find_head(tweets, commits, files[p])
                 /\ XFS_history(commits', files', p) = XFS_history(commits, files, p)]_vars

\* a write left post 2 with no commit, a later write on the same handle
\* succeeded with post 3, and an open that followed resolved post 3
C31_Witness ==
    /\ res.op = "open" /\ res.ok
    /\ Len(tweets) = 3
    /\ 2 \in Orphans /\ tweets[2].parent_id = 1
    /\ 3 \in DOMAIN commits /\ commits[3].parents = <<1>>
    /\ \E i \in 1..Len(faults) : faults[i].op = "write"
    /\ \E p \in DOMAIN files :
          /\ files[p] = 1
          /\ Len(oplog[p]) = 1 /\ oplog[p][1].h = 1 /\ oplog[p][1].new = 3
          /\ handles[2] = XFile_new(p, 3, handles[2].fs)
          /\ [i \in 1..2 |-> XFS_history(commits, files, p).val[i].id] = <<1, 3>>

\* the commit graph that XFS::find_head loads for the file rooted at root_id
LoadedGraph(root_id) ==
    LoadLoop(tweets, commits, SetToSeq(fetch_replies(tweets, root_id)),
             IF root_id \in DOMAIN commits
             THEN Put(EmptyMap, root_id, get_commit(commits, root_id))
             ELSE EmptyMap)

\* the successful writes and deletes on p whose commit no commit names as parent
ChildlessLogged(p) ==
    {i \in 1..Len(oplog[p]) : get_children(commits, oplog[p][i].new) = {}}

\* C32: under any interleaving of the writes and deletes of several handles
\* open on the same path no commit is lost: every successful write or delete
\* leaves a persisted commit of its own that appears in history(path) with
\* the head its handle held at the start of the call as sole parent; two
\* handles that write from the same head both keep their commits as
\* siblings, detect_forks on the loaded graph reports every such commit that
\* has no child, and a later open resolves to one of the reported commits.
C32_NoCommitLost ==
    \A p \in Paths :
        oplog[p] # <<>> =>
            LET log == oplog[p]
                hist == XFS_history(commits, files, p).val
                forks == detect_forks(LoadedGraph(files[p]), files[p])
                heads == XFS_find_head(tweets, commits, files[p])
            IN  /\ \A i \in 1..Len(log) :
                      /\ log[i].new \in DOMAIN commits
                      /\ commits[log[i].new].parents = <<log[i].old>>
                      /\ \E k \in 1..Len(hist) : hist[k].id = log[i].new
                      /\ \A j \in 1..Len(log) : log[j].new = log[i].new => j = i
                /\ \A i \in ChildlessLogged(p) : Contains(forks, log[i].new)
                /\ heads # {}
                /\ \A id \in heads : Contains(forks, id)

\* two handles wrote from the root, the one that posted second returned
\* first: both commits are children of the root, both are reported as heads,
\* and open resolves to one of the two
C32_Witness ==
    \E p \in DOMAIN files :
        /\ Len(oplog[p]) = 2
        /\ oplog[p][1].h # oplog[p][2].h
        /\ oplog[p][1].old = files[p] /\ oplog[p][2].old = files[p]
        /\ oplog[p][1].new > oplog[p][2].new
        /\ LET forks == detect_forks(LoadedGraph(files[p]), files[p])
           IN  /\ {forks[i] : i \in 1..Len(forks)} = {oplog[p][1].new, oplog[p][2].new}
               /\ XFS_find_head(tweets, commits, files[p]) \subseteq {oplog[p][1].new, oplog[p][2].new}
               /\ XFS_find_head(tweets, commits, files[p]) # {}

\* ------------------------------------------------------------------------
\* Properties of get_ancestors
\* ------------------------------------------------------------------------

\* what is reached from S by following the parents links of loaded commits
RECURSIVE Ancestors(_, _)
Ancestors(g, S) ==
    LET T == S \cup {p \in GraphIds : \E c \in S \cap DOMAIN g : Contains(g[c].parents, p)}
    IN  IF T = S THEN S ELSE Ancestors(g, T)

\* C27: get_ancestors(id) returns exactly the loaded commits reachable from id
\* by following parents links through loaded commits, including the commit id
\* itself, with no commit returned twice even when two paths lead to the same
\* ancestor.
C27_AncestorsExactOnce ==
    gres.op = "get_ancestors" =>
        /\ gres.ok
        /\ {gres.ids[i] : i \in 1..Len(gres.ids)} = Ancestors(graph, {gres.start}) \cap DOMAIN graph
        /\ gres.start \in DOMAIN graph => Contains(gres.ids, gres.start)
        /\ \A i, j \in 1..Len(gres.ids) : gres.ids[i] = gres.ids[j] => i = j

\* get_ancestors was called on a merge commit whose two parents lead to the
\* same ancestor, and returned the three commits
C27_Witness ==
    /\ gres.op = "get_ancestors"
    /\ Len(gres.ids) = 3
    /\ \E a, b \in DOMAIN graph :
          /\ a # b /\ a # gres.start /\ b # gres.start
          /\ gres.start \in DOMAIN graph
          /\ Contains(graph[gres.start].parents, a) /\ Contains(graph[gres.start].parents, b)
          /\ graph[a].parents = <<b>>
          /\ graph[b].parents = <<>>

\* C33 (as claimed): find_head and detect_forks agree on every loaded commit
\* set and start id: find_head(start) succeeds exactly when
\* detect_forks(start) is non-empty, and the id of the commit it returns is a
\* member of detect_forks(start).
C33_FindHeadAgreesWithForks ==
    gres.op = "find_head" =>
        LET forks == detect_forks(graph, gres.start) IN
        /\ gres.ok <=> forks # <<>>
        /\ gres.ok => Contains(forks, gres.ids[1])

\* no id was pushed to the queue twice
PushedOnce ==
    \A i, j \in 1..Len(walk.pushed) : walk.pushed[i] = walk.pushed[j] => i = j

\* what the loop returned is what the query returns
WalkReturns ==
    walk.pc = "done" =>
        CASE walk.op = "find_head" ->
               /\ gres.ok <=> find_head(graph, walk.start) # {}
               /\ gres.ok => gres.ids[1] \in find_head(graph, walk.start)
          [] walk.op = "detect_forks" ->
               {gres.ids[i] : i \in 1..Len(gres.ids)}
                  = {detect_forks(graph, walk.start)[i] :
                        i \in 1..Len(detect_forks(graph, walk.start))}
          [] walk.op = "get_ancestors" -> gres.ids = get_ancestors(graph, walk.start)

\* C34: find_head, detect_forks and get_ancestors terminate on every finite
\* loaded commit set, including sets whose parents links form a cycle or name
\* commits that are not loaded, because each id is enqueued at most once: no
\* id is pushed twice, and a loop that was begun returns.
C34_WalksTerminate ==
    /\ []PushedOnce
    /\ []WalkReturns
    /\ (walk.pc = "loop") ~> (walk.pc = "done")

\* a query has returned on a graph in which two commits name each other as
\* parent and one of them names a commit that is not loaded
C34_Witness ==
    /\ walk.pc = "done"
    /\ \E a, b \in DOMAIN graph, c \in GraphIds :
          /\ a # b /\ c \notin DOMAIN graph
          /\ Contains(graph[a].parents, b) /\ Contains(graph[b].parents, a)
          /\ Contains(graph[a].parents, c)
          /\ walk.start = a
          /\ Len(walk.pushed) = 3

\* C35 (as claimed): a handle opened with OpenMode::ReadOnly is for reading
\* only: no write() or delete() through it makes a remote post, persists a
\* commit or advances a head; only handles opened with Create or ReadWrite
\* change the file.
C35_ReadOnlyNeverWrites ==
    [][\A h \in HandleIds :
          (opened[h] = "ReadOnly" /\ ((\E data \in Payloads : Write(h, data, 0)) \/ Delete(h, 0)))
              => /\ tweets' = tweets
                 /\ commits' = commits
                 /\ handles'[h].head = handles[h].head]_vars

\* C36 (as claimed): if open(path, Create) returns an error because the
\* remote post or one of the three index writes failed, path is not
\* registered afterwards: exists(path) is false, and a later
\* open(path, Create) is not rejected as already existing.
C36_FailedCreateLeavesNoFile ==
    [][\A h \in HandleIds, fs \in FSIds, p \in Paths, fail \in 1..MaxFail :
          Open(h, fs, p, "Create", fail) =>
              /\ ~res'.ok
              /\ ~file_exists(files', p)
              /\ get_file_root(files', p) = 0]_vars

\* the commits whose head flag is set (get_heads)
Flagged == {id \in DOMAIN commits : commits[id].head}

\* set_head(id), for every id, changes the head flag of the row of id and
\* nothing else; and on every path whose open(Create) did not fail, the root
\* and the commit of every successful write or delete are flagged
SetHeadFrame ==
    /\ \A id \in 1..(Len(tweets) + 1) :
          LET after == set_head(commits, id) IN
          /\ DOMAIN after = DOMAIN commits
          /\ \A x \in DOMAIN commits :
                after[x] = IF x = id THEN [commits[x] EXCEPT !.head = TRUE] ELSE commits[x]
    /\ \A p \in DOMAIN files :
          (\A i \in 1..Len(faults) : faults[i] # [op |-> "open", path |-> p]) =>
              {files[p]} \cup {oplog[p][i].new : i \in 1..Len(oplog[p])} \subseteq Flagged

C38_StoreRoundTrip ==
    res.op = "store_commit" =>
        /\ res.val.id \in DOMAIN commits
        /\ get_commit(commits, res.val.id) = res.val

====
